---------------------------- MODULE Spec2Model ----------------------------
(***************************************************************************)
(* Model of the GutRest data layer: the SQLite-backed DatabaseServiceImpl  *)
(* (services/database.ts), the local date helpers (services/dateUtils.ts), *)
(* the fast-breaking category table (constants/MealCategories.ts) and the  *)
(* TimeCalculationService.                                                 *)
(*                                                                         *)
(* Every await of the source is a scheduling point: a caller sits at the   *)
(* pc that names the statement it has issued, and the action for that pc   *)
(* runs the statement against the store and continues synchronously up to  *)
(* the next await.                                                         *)
(***************************************************************************)
EXTENDS Integers, Sequences, FiniteSets, TLC

VARIABLES
    tables,         \* on-disk tables of gutrest.db: name -> [exists, cols, rows]
    indexes,        \* names of the indexes that exist on meal_entries
    db,             \* DatabaseServiceImpl.db: Null or the handle of gutrest.db
    isInitialized,  \* DatabaseServiceImpl.isInitialized
    faults,         \* statement failures the environment has injected so far
    pc,             \* per caller: the await it is suspended at ("idle": none)
    cur,            \* per caller: the arguments of the store operation in flight
    ret,            \* the call the last step returned from, if it did
    initCompleted,  \* history: an initialize() has succeeded and close() was not called since
    migrationFailed, \* history: the last initialize() to finish failed in runMigrations
    installed,      \* history: the store as the service first found it
    completedRuns,  \* history: initialize() calls that ran to success (counted up to MaxRuns)
    utcOffset,      \* the device's timezone: local time = UTC + utcOffset (ms)
    calcIn,         \* arguments of a TimeCalculationService call
    calcOut,        \* the value that call returned (None before the call)
    ctx,            \* MealDataState of the MealData context: todayEntries, todaySummary, isLoading
    clock,          \* Date.now() as the MealData context reads it
    asyncStorage,   \* AsyncStorage: the item "@gutrest:settings" (None: no such key)
    storageRet      \* the StorageService call that returned last

vars == <<tables, indexes, db, isInitialized, faults, pc, cur, ret,
          initCompleted, migrationFailed, installed, completedRuns,
          utcOffset, calcIn, calcOut, ctx, clock, asyncStorage, storageRet>>

---------------------------------------------------------------------------
(* Bounds of the model *)

NumCallers == 2
MaxRows == 1
MaxFaults == 1
MaxRuns == 2

Callers == 1..NumCallers
RowIds == 1..MaxRows

---------------------------------------------------------------------------
(* Time units *)

MsPerMinute == 60000
HourMs == 60 * MsPerMinute
DayMs == 24 * HourMs

---------------------------------------------------------------------------
(* Schema *)

NewCols == {"id", "category", "timestamp", "notes", "created_at", "updated_at"}
OldCols == NewCols \cup {"date"}

NoTable == [exists |-> FALSE, cols |-> {}, rows |-> {}]
Table(cols, rows) == [exists |-> TRUE, cols |-> cols, rows |-> rows]

IndexName == "idx_meal_entries_timestamp"

Null == "null"
Handle == "gutrest.db"

\* A stored row of the current schema, and the same row under the old schema
\* (which carried a derived date column).
SampleRow(i) ==
    [id |-> i, category |-> IF i = 1 THEN "heavy_meal" ELSE "water",
     timestamp |-> i * HourMs, notes |-> IF i = 1 THEN "n" ELSE "",
     created_at |-> i, updated_at |-> i + 1]

WithDate(r) == [c \in OldCols |-> IF c = "date" THEN r.timestamp \div DayMs ELSE r[c]]

\* INSERT INTO meal_entries_new (...) SELECT id, category, timestamp, notes,
\* created_at, updated_at FROM meal_entries: the projection of one row.
CopiedRow(r) == [c \in NewCols |-> r[c]]

---------------------------------------------------------------------------
(* services/dateUtils.ts and the JavaScript Date operations it rests on.   *)
(* A date identifier "YYYY-MM-DD" is modelled by the number of days from   *)
(* 1970-01-01 to the calendar date it names; a Date by its epoch ms.       *)

\* new Date("YYYY-MM-DD"): a date-only ISO string is read as UTC midnight
ParseDateString(d) == d * DayMs

\* the local calendar date of an instant: getFullYear/getMonth/getDate
LocalDateOf(t) == (t + utcOffset) \div DayMs

\* date.setHours(0, 0, 0, 0): local midnight of the instant's local date
SetHoursStartOfDay(t) == LocalDateOf(t) * DayMs - utcOffset

\* date.setHours(23, 59, 59, 999)
SetHoursEndOfDay(t) == LocalDateOf(t) * DayMs - utcOffset + (DayMs - 1)

\* date.setDate(date.getDate() + k): same local time of day, k local days on
SetDatePlus(t, k) == t + k * DayMs

getLocalDateString(t) == LocalDateOf(t)

getDateStringFromTimestamp(timestamp) == getLocalDateString(timestamp)

getDateStringWithOffset(baseDate, offsetDays) ==
    getLocalDateString(SetDatePlus(ParseDateString(baseDate), offsetDays))

---------------------------------------------------------------------------
(* constants/MealCategories.ts *)

MealCategories == {"water", "fruit", "light_meal", "medium_meal", "heavy_meal",
                   "fast_food", "drink"}

FASTING_BREAKING_CATEGORIES == {"fruit", "light_meal", "medium_meal",
                                "heavy_meal", "fast_food", "drink"}

doesCategoryBreakFasting(categoryId) == categoryId \in FASTING_BREAKING_CATEGORIES

---------------------------------------------------------------------------
(* Absent values: an optional value is the empty sequence or <<v>>.        *)

None == <<>>
Some(v) == <<v>>
IsSome(o) == Len(o) = 1
Get(o) == o[1]

\* JavaScript's % keeps the sign of the dividend
JsRem(a, b) == IF a >= 0 THEN a % b ELSE -((-a) % b)

---------------------------------------------------------------------------
(* TimeCalculationService *)

\* a formatDuration that rounded to the nearest minute
formatDurationRounded(milliseconds) ==
    IF milliseconds < 0
    THEN "0m"
    ELSE LET totalMinutes == (milliseconds + MsPerMinute \div 2) \div MsPerMinute
             hours == totalMinutes \div 60
             minutes == totalMinutes % 60
         IN  IF hours = 0 THEN ToString(minutes) \o "m"
             ELSE IF minutes = 0 THEN ToString(hours) \o "h"
             ELSE ToString(hours) \o "h " \o ToString(minutes) \o "m"

\* TimeCalculationService.formatDuration
formatDuration(milliseconds) ==
    IF milliseconds < 0
    THEN "0m"
    ELSE LET totalMinutes == milliseconds \div MsPerMinute
             hours == totalMinutes \div 60
             minutes == totalMinutes % 60
         IN  IF hours = 0 THEN ToString(minutes) \o "m"
             ELSE IF minutes = 0 THEN ToString(hours) \o "h"
             ELSE ToString(hours) \o "h " \o ToString(minutes) \o "m"

\* the character at position i of a string, and the value of a digit
CharAt(text, i) == SubSeq(text, i, i)
Digits == {"0", "1", "2", "3", "4", "5", "6", "7", "8", "9"}
DigitValue(c) == CHOOSE d \in 0..9 : ToString(d) = c

\* parseInt(digits, 10) of the longest run of digits that ends at position j
RECURSIVE NumberEndingAt(_, _)
NumberEndingAt(text, j) ==
    IF j < 1 \/ CharAt(text, j) \notin Digits THEN 0
    ELSE 10 * NumberEndingAt(text, j - 1) + DigitValue(CharAt(text, j))

\* text.match(/(\d+)<unit>/): the leftmost run of digits directly followed by
\* the unit letter, as an optional number (null when nothing matches)
MatchNumberBefore(text, unit) ==
    LET ends == {j \in 2..Len(text) :
                    CharAt(text, j) = unit /\ CharAt(text, j - 1) \in Digits}
    IN  IF ends = {} THEN None
        ELSE Some(NumberEndingAt(text, (CHOOSE j \in ends : \A k \in ends : j <= k) - 1))

\* a parseDuration that read the minutes only
parseDurationMinutesOnly(durationString) ==
    LET minuteMatch == MatchNumberBefore(durationString, "m")
    IN  (IF IsSome(minuteMatch) THEN Get(minuteMatch) ELSE 0) * 60 * 1000

\* TimeCalculationService.parseDuration
parseDuration(durationString) ==
    LET hourMatch == MatchNumberBefore(durationString, "h")
        minuteMatch == MatchNumberBefore(durationString, "m")
        hours == IF IsSome(hourMatch) THEN Get(hourMatch) ELSE 0
        minutes == IF IsSome(minuteMatch) THEN Get(minuteMatch) ELSE 0
    IN  (hours * 60 + minutes) * 60 * 1000

\* [...entries].sort((a, b) => a.timestamp - b.timestamp): a stable sort of a copy
RECURSIVE InsertByTimestamp(_, _)
InsertByTimestamp(sorted, e) ==
    IF sorted = <<>> THEN <<e>>
    ELSE IF sorted[Len(sorted)].timestamp <= e.timestamp
         THEN Append(sorted, e)
         ELSE Append(InsertByTimestamp(SubSeq(sorted, 1, Len(sorted) - 1), e),
                     sorted[Len(sorted)])

\* a calculateGaps that walked the entries in the order given
Unsorted(entries) == entries

RECURSIVE SortedCopy(_)
SortedCopy(entries) ==
    IF entries = <<>> THEN <<>>
    ELSE InsertByTimestamp(SortedCopy(SubSeq(entries, 1, Len(entries) - 1)),
                           entries[Len(entries)])

\* the loop shared by calculateGaps and calculateTimeGaps: one gap per
\* consecutive pair, formatted by the caller's formatter
GapBetween(a, b, formatted) ==
    [startTime |-> a.timestamp, endTime |-> b.timestamp,
     durationMs |-> b.timestamp - a.timestamp, durationFormatted |-> formatted]

\* the caller's array after calculateGaps(entries): the sort acts on the copy
\* [...entries], so the argument keeps its order
ArgumentAfterCalculateGaps(entries) == entries

\* TimeCalculationService.calculateGaps
calculateGaps(entries) ==
    IF Len(entries) < 2
    THEN <<>>
    ELSE LET sortedEntries == SortedCopy(entries)
         IN  [i \in 1..(Len(sortedEntries) - 1) |->
                GapBetween(sortedEntries[i], sortedEntries[i + 1],
                    formatDuration(sortedEntries[i + 1].timestamp
                                   - sortedEntries[i].timestamp))]

\* a calculateFastingWindow whose sanity check read ">= 48h" and whose
\* intermittent-fasting test read "> 16h"
calculateFastingWindowStrict(lastEntryYesterday, firstEntryToday) ==
    IF ~IsSome(lastEntryYesterday) \/ ~IsSome(firstEntryToday)
    THEN None
    ELSE LET startTime == Get(lastEntryYesterday).timestamp
             endTime == Get(firstEntryToday).timestamp
             durationMs == endTime - startTime
         IN  IF durationMs <= 0 \/ durationMs >= 48 * HourMs
             THEN None
             ELSE Some([startTime |-> startTime, endTime |-> endTime,
                        durationMs |-> durationMs,
                        durationFormatted |-> formatDuration(durationMs),
                        isIntermittentFasting |-> durationMs > 16 * HourMs])

\* TimeCalculationService.calculateFastingWindow: the arguments are optional
\* entries, the result an optional FastingWindow
calculateFastingWindow(lastEntryYesterday, firstEntryToday) ==
    IF ~IsSome(lastEntryYesterday) \/ ~IsSome(firstEntryToday)
    THEN None
    ELSE LET startTime == Get(lastEntryYesterday).timestamp
             endTime == Get(firstEntryToday).timestamp
             durationMs == endTime - startTime
         IN  IF durationMs <= 0 \/ durationMs > 48 * HourMs
             THEN None
             ELSE Some([startTime |-> startTime, endTime |-> endTime,
                        durationMs |-> durationMs,
                        durationFormatted |-> formatDuration(durationMs),
                        isIntermittentFasting |-> durationMs >= 16 * HourMs])

\* (currentFastDuration / goalMs) * 100 is evaluated in IEEE-754 doubles. The
\* quotient and the product are each rounded to 53 bits, an error far below
\* the distance of any other integer ratio from a half, so the doubles matter
\* only where the exact percentage is k + 0.5: there the product of the
\* rounded quotient (2k+1)/200 and 100 is k + 0.5 itself, except that it
\* falls just below for the k of HalvesBelow (0.145 * 100 is
\* 14.499999999999998) and just above for the k of HalvesAbove (0.035 * 100
\* is 3.5000000000000004).
HalvesBelow == {14, 28}
HalvesAbove == {3, 27}

\* Math.round(Math.min(100, (currentFastDuration / goalMs) * 100)), goalMs a
\* positive whole number of hours: Math.round takes an exact half upwards
MathRoundOfProgress(currentFastDuration, goalMs) ==
    LET half == goalMs \div 200
        whole == 2 * half
        size == IF currentFastDuration >= 0 THEN currentFastDuration
                ELSE -currentFastDuration
        k == size \div whole
        exactHalf == size % whole = half
    IN  IF currentFastDuration >= goalMs THEN 100
        ELSE IF exactHalf /\ currentFastDuration > 0 /\ k \in HalvesBelow THEN k
        ELSE IF exactHalf /\ currentFastDuration < 0 /\ k \in HalvesAbove THEN -(k + 1)
        ELSE (currentFastDuration + half) \div whole

\* TimeCalculationService.getCurrentFastingStatus: lastEntry is an optional
\* entry, now the value of Date.now() read by the call
getCurrentFastingStatus(lastEntry, fastingGoalHours, now) ==
    IF ~IsSome(lastEntry)
    THEN [isCurrentlyFasting |-> FALSE, currentFastDuration |-> 0,
          currentFastFormatted |-> "0m", timeToGoal |-> 0,
          timeToGoalFormatted |-> "0m", goalReached |-> FALSE,
          progressPercentage |-> 0]
    ELSE LET currentFastDuration == now - Get(lastEntry).timestamp
             goalMs == fastingGoalHours * 60 * 60 * 1000
             timeToGoal == IF goalMs - currentFastDuration > 0
                           THEN goalMs - currentFastDuration ELSE 0
         IN  [isCurrentlyFasting |-> currentFastDuration > 0,
              currentFastDuration |-> currentFastDuration,
              currentFastFormatted |-> formatDuration(currentFastDuration),
              timeToGoal |-> timeToGoal,
              timeToGoalFormatted |-> formatDuration(timeToGoal),
              goalReached |-> currentFastDuration >= goalMs,
              progressPercentage |-> MathRoundOfProgress(currentFastDuration, goalMs)]

\* the sum gaps.reduce((sum, gap) => sum + gap.durationMs, 0)
RECURSIVE TotalGapMs(_)
TotalGapMs(gaps) ==
    IF gaps = <<>> THEN 0
    ELSE TotalGapMs(SubSeq(gaps, 1, Len(gaps) - 1)) + gaps[Len(gaps)].durationMs

\* a reduce that let a later gap of equal duration replace the shortest so far
RECURSIVE LastShortestGap(_)
LastShortestGap(gaps) ==
    IF Len(gaps) = 1 THEN gaps[1]
    ELSE LET shortest == LastShortestGap(SubSeq(gaps, 1, Len(gaps) - 1))
             current == gaps[Len(gaps)]
         IN  IF current.durationMs <= shortest.durationMs THEN current ELSE shortest

\* gaps.reduce((shortest, current) =>
\*     current.durationMs < shortest.durationMs ? current : shortest), gaps not empty
RECURSIVE ShortestGap(_)
ShortestGap(gaps) ==
    IF Len(gaps) = 1 THEN gaps[1]
    ELSE LET shortest == ShortestGap(SubSeq(gaps, 1, Len(gaps) - 1))
             current == gaps[Len(gaps)]
         IN  IF current.durationMs < shortest.durationMs THEN current ELSE shortest

\* gaps.reduce((longest, current) =>
\*     current.durationMs > longest.durationMs ? current : longest), gaps not empty
RECURSIVE LongestGap(_)
LongestGap(gaps) ==
    IF Len(gaps) = 1 THEN gaps[1]
    ELSE LET longest == LongestGap(SubSeq(gaps, 1, Len(gaps) - 1))
             current == gaps[Len(gaps)]
         IN  IF current.durationMs > longest.durationMs THEN current ELSE longest

\* a quotient a / b of JavaScript numbers, kept as the fraction it stands for
Quotient(a, b) == [over |-> a, by |-> b]
Number(a) == Quotient(a, 1)

\* TimeCalculationService.getDailyStats
getDailyStats(summary) ==
    LET gaps == summary.gaps
        fastingWindow == summary.fastingWindow
        entries == summary.entries
    IN  [shortestGap |-> IF Len(gaps) > 0 THEN Some(ShortestGap(gaps)) ELSE None,
         longestGap |-> IF Len(gaps) > 0 THEN Some(LongestGap(gaps)) ELSE None,
         averageGap |-> IF Len(gaps) > 0 THEN Quotient(TotalGapMs(gaps), Len(gaps))
                        ELSE Number(0),
         totalGaps |-> Len(gaps),
         fastingStreak |-> IF IsSome(fastingWindow) /\ Get(fastingWindow).isIntermittentFasting
                           THEN 1 ELSE 0,
         totalIntakeToday |-> Len(entries)]

\* a calculateEatingWindow that measured from the first entry to the second
calculateEatingWindowToSecond(entries) ==
    IF Len(entries) < 2 THEN 0
    ELSE SortedCopy(entries)[2].timestamp - SortedCopy(entries)[1].timestamp

\* TimeCalculationService.calculateEatingWindow
calculateEatingWindow(entries) ==
    IF Len(entries) < 2 THEN 0
    ELSE LET sortedEntries == SortedCopy(entries)
         IN  sortedEntries[Len(sortedEntries)].timestamp - sortedEntries[1].timestamp

\* Math.round(a / b) for b > 0: the nearest whole number, a half taken upwards
MathRound(a, b) == (2 * a + b) \div (2 * b)

\* the totals of analyzeEatingPatterns after its loop over the summaries
RECURSIVE PatternTotals(_)
PatternTotals(summaries) ==
    IF summaries = <<>>
    THEN [totalEatingWindowMs |-> 0, totalMealsPerDay |-> 0, totalFastingMs |-> 0,
          ifDays |-> 0, validEatingWindows |-> 0, validFastingWindows |-> 0,
          squares |-> 0]
    ELSE LET t == PatternTotals(SubSeq(summaries, 1, Len(summaries) - 1))
             summary == summaries[Len(summaries)]
             eats == Len(summary.entries) >= 2
             fasts == IsSome(summary.fastingWindow)
         IN  [totalEatingWindowMs |-> t.totalEatingWindowMs
                  + (IF eats THEN calculateEatingWindow(summary.entries) ELSE 0),
              totalMealsPerDay |-> t.totalMealsPerDay + summary.totalEntries,
              totalFastingMs |-> t.totalFastingMs
                  + (IF fasts THEN Get(summary.fastingWindow).durationMs ELSE 0),
              ifDays |-> t.ifDays
                  + (IF fasts /\ Get(summary.fastingWindow).isIntermittentFasting
                     THEN 1 ELSE 0),
              validEatingWindows |-> t.validEatingWindows + (IF eats THEN 1 ELSE 0),
              validFastingWindows |-> t.validFastingWindows + (IF fasts THEN 1 ELSE 0),
              squares |-> t.squares + summary.totalEntries * summary.totalEntries]

\* TimeCalculationService.analyzeEatingPatterns.  Averages are kept as the
\* fractions they stand for; the variance of the meal counts is
\* (n * sum of squares - square of the sum) / n^2.
analyzeEatingPatterns(summaries) ==
    IF Len(summaries) = 0
    THEN [averageEatingWindow |-> Number(0), averageMealsPerDay |-> Number(0),
          averageFastingHours |-> Number(0), intermittentFastingDays |-> 0,
          consistencyScore |-> 0]
    ELSE LET t == PatternTotals(summaries)
             n == Len(summaries)
             averageEatingWindow ==
                 IF t.validEatingWindows > 0
                 THEN Quotient(t.totalEatingWindowMs, t.validEatingWindows)
                 ELSE Number(0)
             varianceOver == n * t.squares - t.totalMealsPerDay * t.totalMealsPerDay
             scoreOver == 100 * n * n - 20 * varianceOver
         IN  [averageEatingWindow |-> averageEatingWindow,
              averageEatingWindowFormatted |->
                  formatDuration(averageEatingWindow.over \div averageEatingWindow.by),
              averageMealsPerDay |-> Quotient(MathRound(10 * t.totalMealsPerDay, n), 10),
              averageFastingHours |->
                  IF t.validFastingWindows > 0
                  THEN Quotient(MathRound(t.totalFastingMs,
                                          360000 * t.validFastingWindows), 10)
                  ELSE Number(0),
              intermittentFastingDays |-> t.ifDays,
              intermittentFastingPercentage |-> MathRound(100 * t.ifDays, n),
              consistencyScore |-> IF scoreOver > 0 THEN MathRound(scoreOver, n * n) ELSE 0,
              totalDaysAnalyzed |-> n]

---------------------------------------------------------------------------
(* DatabaseServiceImpl: queries and the daily summary *)

\* DatabaseServiceImpl.formatDuration (private; no clamp of negative input)
dbFormatDuration(milliseconds) ==
    LET hours == milliseconds \div HourMs
        minutes == JsRem(milliseconds, HourMs) \div MsPerMinute
    IN  IF hours = 0 THEN ToString(minutes) \o "m"
        ELSE IF minutes = 0 THEN ToString(hours) \o "h"
        ELSE ToString(hours) \o "h " \o ToString(minutes) \o "m"

mapRowToMealEntry(row) ==
    [id |-> row.id, category |-> row.category, timestamp |-> row.timestamp,
     notes |-> row.notes, createdAt |-> row.created_at, updatedAt |-> row.updated_at]

\* a query without its ORDER BY clause: rows come in insertion (id) order
RECURSIVE OrderByInsertion(_)
OrderByInsertion(rows) ==
    IF rows = {} THEN <<>>
    ELSE LET first == CHOOSE r \in rows : \A q \in rows : r.id <= q.id
         IN  <<first>> \o OrderByInsertion(rows \ {first})

\* ORDER BY timestamp ASC (rows of equal timestamp in id order)
RECURSIVE OrderByTimestamp(_)
OrderByTimestamp(rows) ==
    IF rows = {} THEN <<>>
    ELSE LET first == CHOOSE r \in rows : \A q \in rows :
                          \/ r.timestamp < q.timestamp
                          \/ r.timestamp = q.timestamp /\ r.id <= q.id
         IN  <<first>> \o OrderByTimestamp(rows \ {first})

\* SELECT * FROM meal_entries WHERE timestamp >= ? AND timestamp <= ?
\* ORDER BY timestamp ASC, mapped by mapRowToMealEntry
SelectRange(T, from, to) ==
    LET hit == {r \in T["meal_entries"].rows : r.timestamp >= from /\ r.timestamp <= to}
        ordered == OrderByTimestamp(hit)
    IN  [i \in 1..Len(ordered) |-> mapRowToMealEntry(ordered[i])]

\* the timestamp range getMealEntriesByDate queries for a date identifier
DayRange(date) ==
    LET dateObj == ParseDateString(date)
    IN  [startOfDay |-> SetHoursStartOfDay(dateObj), endOfDay |-> SetHoursEndOfDay(dateObj)]

\* getMealEntriesByDate, once the statement runs
getMealEntriesByDate(T, date) ==
    SelectRange(T, DayRange(date).startOfDay, DayRange(date).endOfDay)

\* getMealEntriesInRange, once the statement runs
getMealEntriesInRange(T, startDate, endDate) ==
    SelectRange(T, SetHoursStartOfDay(ParseDateString(startDate)),
                   SetHoursEndOfDay(ParseDateString(endDate)))

\* DatabaseServiceImpl.calculateTimeGaps (private; entries arrive ordered)
calculateTimeGaps(entries) ==
    IF Len(entries) < 2
    THEN <<>>
    ELSE [i \in 1..(Len(entries) - 1) |->
            GapBetween(entries[i], entries[i + 1],
                dbFormatDuration(entries[i + 1].timestamp - entries[i].timestamp))]

\* DatabaseServiceImpl.calculateFastingWindow (private), once yesterday's
\* entries have been read
dbCalculateFastingWindow(yesterdayEntries, todayEntries) ==
    IF Len(yesterdayEntries) = 0 \/ Len(todayEntries) = 0
    THEN None
    ELSE LET lastIntakeYesterday == yesterdayEntries[Len(yesterdayEntries)].timestamp
             firstIntakeToday == todayEntries[1].timestamp
             durationMs == firstIntakeToday - lastIntakeYesterday
         IN  Some([startTime |-> lastIntakeYesterday, endTime |-> firstIntakeToday,
                   durationMs |-> durationMs,
                   durationFormatted |-> dbFormatDuration(durationMs),
                   isIntermittentFasting |-> durationMs >= 16 * HourMs])

\* getDailySummary after its first query: the summary without a fasting window
SummaryOfEntries(date, entries) ==
    [date |-> date, entries |-> entries, totalEntries |-> Len(entries),
     gaps |-> IF Len(entries) > 0 THEN calculateTimeGaps(entries) ELSE <<>>,
     firstIntake |-> IF Len(entries) > 0 THEN Some(entries[1].timestamp) ELSE None,
     lastIntake |-> IF Len(entries) > 0 THEN Some(entries[Len(entries)].timestamp) ELSE None,
     fastingWindow |-> None]

---------------------------------------------------------------------------
(* SQLite statements of runMigrations and createTables.  Each yields       *)
(* [ok, tables, indexes]: a statement that fails leaves the store as it    *)
(* was (a single statement is atomic; the code opens no transaction).      *)

StmtOk(T, I) == [ok |-> TRUE, tables |-> T, indexes |-> I]
StmtErr(T, I) == [ok |-> FALSE, tables |-> T, indexes |-> I]

\* DROP TABLE IF EXISTS meal_entries_new
DropTempStmt(T, I) == StmtOk([T EXCEPT !["meal_entries_new"] = NoTable], I)

\* CREATE TABLE meal_entries_new (...)
CreateNewStmt(T, I) ==
    IF T["meal_entries_new"].exists
    THEN StmtErr(T, I)
    ELSE StmtOk([T EXCEPT !["meal_entries_new"] = Table(NewCols, {})], I)

\* INSERT INTO meal_entries_new (...) SELECT ... FROM meal_entries
CopyStmt(T, I) ==
    LET src == T["meal_entries"]
        dst == T["meal_entries_new"]
        copied == {CopiedRow(r) : r \in src.rows}
    IN  IF \/ ~src.exists \/ ~dst.exists
           \/ ~(NewCols \subseteq src.cols)
           \/ \E r \in copied : \E q \in dst.rows : q.id = r.id
        THEN StmtErr(T, I)
        ELSE StmtOk([T EXCEPT !["meal_entries_new"].rows = dst.rows \cup copied], I)

\* DROP TABLE meal_entries (its indexes go with it)
DropOldStmt(T, I) ==
    IF ~T["meal_entries"].exists
    THEN StmtErr(T, I)
    ELSE StmtOk([T EXCEPT !["meal_entries"] = NoTable], {})

\* ALTER TABLE meal_entries_new RENAME TO meal_entries
RenameStmt(T, I) ==
    IF ~T["meal_entries_new"].exists \/ T["meal_entries"].exists
    THEN StmtErr(T, I)
    ELSE StmtOk([T EXCEPT !["meal_entries"] = T["meal_entries_new"],
                          !["meal_entries_new"] = NoTable], I)

\* CREATE INDEX IF NOT EXISTS idx_meal_entries_timestamp ON meal_entries(timestamp)
CreateIndexStmt(T, I) ==
    IF ~T["meal_entries"].exists \/ "timestamp" \notin T["meal_entries"].cols
    THEN StmtErr(T, I)
    ELSE StmtOk(T, I \cup {IndexName})

\* CREATE TABLE IF NOT EXISTS meal_entries (...)
CreateTableStmt(T, I) ==
    IF T["meal_entries"].exists
    THEN StmtOk(T, I)
    ELSE StmtOk([T EXCEPT !["meal_entries"] = Table(NewCols, {})], I)
---------------------------------------------------------------------------
(* DatabaseServiceImpl.initialize, runMigrations, createTables, close      *)

storeVars == <<tables, indexes>>
svcVars == <<db, isInitialized>>
histVars == <<initCompleted, migrationFailed, installed, completedRuns>>
prefVars == <<asyncStorage, storageRet>>
uiVars == <<ctx, clock, prefVars>>
envVars == <<utcOffset, calcIn, calcOut, uiVars>>

MigrationSteps == {"tableInfo", "columnInfo", "dropTemp", "createNew", "copy",
                   "dropOld", "rename", "index"}
\* the statements of runMigrations that write
RebuildSteps == {"dropTemp", "createNew", "copy", "dropOld", "rename", "index"}
CreateSteps == {"ctTable", "ctIndex"}
\* the awaits of initialize() that follow the opening of the database
AfterOpenSteps == MigrationSteps \cup CreateSteps
InitSteps == {"open"} \cup AfterOpenSteps

\* the record of a store operation in flight (unused fields keep these values)
NoOp == [kind |-> "none", id |-> 0, category |-> "", timestamp |-> 0, notes |-> "",
         fields |-> {}, date |-> 0, endDate |-> 0, now |-> 0, today |-> <<>>]

InitializeOp == [NoOp EXCEPT !.kind = "initialize"]
CloseOp == [NoOp EXCEPT !.kind = "close"]

Goto(p, at) == pc' = [pc EXCEPT ![p] = at]

NoReturn == [caller |-> 0, call |-> NoOp, status |-> "none", value |-> None]

\* the step returns from no call
Silent == ret' = NoReturn

\* p's call returns (status "ok", "already") or throws (any other status)
Return(p, call, status, value) ==
    /\ pc' = [pc EXCEPT ![p] = "idle"]
    /\ cur' = [cur EXCEPT ![p] = NoOp]
    /\ ret' = [caller |-> p, call |-> call, status |-> status, value |-> value]

\* the environment may make the statement in flight fail (I/O error, full disk)
CanFault == faults < MaxFaults

\* a service whose initialize() had no guard
NeverInitialized == FALSE

\* initialize()'s guard: if (this.isInitialized) return
AlreadyInitialized == isInitialized

\* initialize() called by p, up to its first await
InitializeCall(p) ==
    /\ pc[p] = "idle"
    /\ \A q \in Callers : pc[q] # "closing"
    /\ IF AlreadyInitialized
       THEN Return(p, InitializeOp, "already", None)
       ELSE Goto(p, "open") /\ UNCHANGED <<cur>> /\ Silent
    /\ UNCHANGED <<storeVars, svcVars, faults, histVars, envVars>>

\* initialize()'s catch block: the error is rethrown as DB_INIT_FAILED (cause:
\* what was caught); neither this.db nor this.isInitialized is touched
InitializeFails(p, cause) ==
    /\ Return(p, InitializeOp, cause, None)
    /\ migrationFailed' = (cause = "MIGRATION_FAILED")
    /\ UNCHANGED <<storeVars, isInitialized, initCompleted, installed,
                   completedRuns, envVars>>

\* the statement in flight fails at the environment's hand
InitializeFaults(p, cause) ==
    /\ CanFault
    /\ faults' = faults + 1
    /\ InitializeFails(p, cause)
    /\ UNCHANGED db

\* this.db = await SQLite.openDatabaseAsync("gutrest.db"), then runMigrations()
\* up to its first await
OpenDone(p) ==
    /\ pc[p] = "open"
    /\ \/ /\ db' = Handle
          /\ Goto(p, "tableInfo")
          /\ Silent
          /\ UNCHANGED <<storeVars, isInitialized, faults, cur, histVars, envVars>>
       \/ InitializeFaults(p, "OPEN_FAILED")

\* One awaited statement of initialize(): with r what the statement does to the
\* store, it succeeds and the code runs on to the await named next, or it
\* fails (on its own terms, or because this.db is null) and the catch blocks
\* rethrow it as cause.
InitStatement(p, at, r, next, cause) ==
    /\ pc[p] = at
    /\ \/ /\ db # Null /\ r.ok
          /\ tables' = r.tables
          /\ indexes' = r.indexes
          /\ Goto(p, next)
          /\ Silent
          /\ UNCHANGED <<svcVars, faults, cur, histVars, envVars>>
       \/ /\ db = Null \/ ~r.ok
          /\ InitializeFails(p, cause)
          /\ UNCHANGED <<db, faults>>
       \/ InitializeFaults(p, cause)

\* a migrator that rebuilt every table it finds, whatever its columns
TableHasColumns(T) == T["meal_entries"].cols # {}

\* PRAGMA table_info(meal_entries): columnInfo.some(col => col.name === "date")
HasDateColumn(T) == "date" \in T["meal_entries"].cols

\* SELECT name FROM sqlite_master WHERE type='table' AND name='meal_entries'.
\* Without the table runMigrations returns and createTables() issues its
\* first statement.
TableInfoDone(p) ==
    InitStatement(p, "tableInfo", StmtOk(tables, indexes),
                  IF tables["meal_entries"].exists THEN "columnInfo" ELSE "ctTable",
                  "MIGRATION_FAILED")

ColumnInfoDone(p) ==
    InitStatement(p, "columnInfo", StmtOk(tables, indexes),
                  IF HasDateColumn(tables) THEN "dropTemp" ELSE "ctTable",
                  "MIGRATION_FAILED")

DropTempDone(p) ==
    InitStatement(p, "dropTemp", DropTempStmt(tables, indexes), "createNew",
                  "MIGRATION_FAILED")
CreateNewDone(p) ==
    InitStatement(p, "createNew", CreateNewStmt(tables, indexes), "copy",
                  "MIGRATION_FAILED")
CopyDone(p) ==
    InitStatement(p, "copy", CopyStmt(tables, indexes), "dropOld", "MIGRATION_FAILED")
DropOldDone(p) ==
    InitStatement(p, "dropOld", DropOldStmt(tables, indexes), "rename",
                  "MIGRATION_FAILED")
RenameDone(p) ==
    InitStatement(p, "rename", RenameStmt(tables, indexes), "index", "MIGRATION_FAILED")
\* the last statement of runMigrations; createTables() issues its first
IndexDone(p) ==
    InitStatement(p, "index", CreateIndexStmt(tables, indexes), "ctTable",
                  "MIGRATION_FAILED")

\* createTables: CREATE TABLE IF NOT EXISTS meal_entries
CtTableDone(p) ==
    InitStatement(p, "ctTable", CreateTableStmt(tables, indexes), "ctIndex",
                  "CREATE_FAILED")

\* createTables: CREATE INDEX IF NOT EXISTS, then this.isInitialized = true
CtIndexDone(p) ==
    /\ pc[p] = "ctIndex"
    /\ LET r == CreateIndexStmt(tables, indexes)
       IN \/ /\ db # Null /\ r.ok
             /\ tables' = r.tables
             /\ indexes' = r.indexes
             /\ isInitialized' = TRUE
             /\ initCompleted' = TRUE
             /\ migrationFailed' = FALSE
             /\ completedRuns' = IF completedRuns < MaxRuns THEN completedRuns + 1
                                 ELSE completedRuns
             /\ Return(p, InitializeOp, "ok", None)
             /\ UNCHANGED <<db, faults, installed, envVars>>
          \/ /\ db = Null \/ ~r.ok
             /\ InitializeFails(p, "CREATE_FAILED")
             /\ UNCHANGED <<db, faults>>
          \/ InitializeFaults(p, "CREATE_FAILED")

\* close(): if (this.db) { await this.db.closeAsync(); ... }.  The repository
\* never calls close(); the host calls it when no other call is in flight.
CloseCall(p) ==
    /\ \A q \in Callers : pc[q] = "idle"
    /\ db # Null
    /\ Goto(p, "closing")
    /\ initCompleted' = FALSE
    /\ Silent
    /\ UNCHANGED <<storeVars, svcVars, faults, cur, migrationFailed, installed,
                   completedRuns, envVars>>

\* after await closeAsync(): this.db = null; this.isInitialized = false
CloseDone(p) ==
    /\ pc[p] = "closing"
    /\ db' = Null
    /\ isInitialized' = FALSE
    /\ Return(p, CloseOp, "ok", None)
    /\ UNCHANGED <<storeVars, faults, histVars, envVars>>

---------------------------------------------------------------------------
(* DatabaseServiceImpl: store operations.  Each starts with               *)
(*   if (!this.db) throw new Error("Database not initialized")            *)
(* and then awaits one statement.                                          *)

\* the guard every store operation starts with
NotInitialized == db = Null

\* the store operations, and the awaits a caller of one can be suspended at
OpKinds == {"insert", "update", "delete", "byDate", "inRange", "summary"}
OpSteps == OpKinds \cup {"summaryYesterday"}

\* a call by p of the store operation op, up to its first await
OpCall(p, op) ==
    /\ pc[p] = "idle"
    /\ \A q \in Callers : pc[q] # "closing"
    /\ IF NotInitialized
       THEN Return(p, op, "NOT_INITIALIZED", None)
       ELSE /\ Goto(p, op.kind)
            /\ cur' = [cur EXCEPT ![p] = op]
            /\ Silent
    /\ UNCHANGED <<storeVars, svcVars, faults, histVars, envVars>>

\* the statement of p's operation has run, leaving the tables T: the call
\* returns value or throws status
Finish(p, status, T, value) ==
    /\ Return(p, cur[p], status, value)
    /\ tables' = T
    /\ UNCHANGED <<indexes, svcVars, faults, histVars, envVars>>

\* the environment fails the statement of p's operation
Faulted(p, status) ==
    /\ CanFault
    /\ faults' = faults + 1
    /\ Return(p, cur[p], status, None)
    /\ UNCHANGED <<storeVars, svcVars, histVars, envVars>>

\* generateId(): an id no stored row and no insert in flight has
FreshIds == {i \in RowIds :
               /\ \A r \in tables["meal_entries"].rows : r.id # i
               /\ \A r \in tables["meal_entries_new"].rows : r.id # i
               /\ \A q \in Callers : ~(pc[q] = "insert" /\ cur[q].id = i)}

\* insertMealEntry(entry)
InsertCall(p, category, timestamp, now) ==
    \E id \in FreshIds :
        OpCall(p, [NoOp EXCEPT !.kind = "insert", !.id = id, !.category = category,
                               !.timestamp = timestamp, !.now = now])

\* INSERT INTO meal_entries (id, category, timestamp, notes, created_at, updated_at);
\* the old schema's date column is NOT NULL and gets no value
InsertStmt(T, op) ==
    LET t == T["meal_entries"]
        row == [id |-> op.id, category |-> op.category, timestamp |-> op.timestamp,
                notes |-> op.notes, created_at |-> op.now, updated_at |-> op.now]
    IN  IF ~t.exists \/ t.cols # NewCols \/ \E r \in t.rows : r.id = op.id
        THEN StmtErr(T, indexes)
        ELSE StmtOk([T EXCEPT !["meal_entries"].rows = t.rows \cup {row}], indexes)

InsertDone(p) ==
    /\ pc[p] = "insert"
    /\ LET r == InsertStmt(tables, cur[p])
       IN \/ r.ok /\ Finish(p, "ok", r.tables, Some(cur[p].id))
          \/ ~r.ok /\ Finish(p, "INSERT_FAILED", tables, None)
          \/ Faulted(p, "INSERT_FAILED")

\* the statement's result.changes for WHERE id = ?
Changes(T, op) == Cardinality({r \in T["meal_entries"].rows : r.id = op.id})

\* updateMealEntry(id, updates): fields are the attributes among category,
\* timestamp and notes that updates defines.  With none of them the call
\* returns before any statement is issued.
UpdateCall(p, id, fields, category, timestamp, notes, now) ==
    LET op == [NoOp EXCEPT !.kind = "update", !.id = id, !.fields = fields,
                           !.category = category, !.timestamp = timestamp,
                           !.notes = notes, !.now = now]
    IN  IF ~NotInitialized /\ fields = {}
        THEN /\ pc[p] = "idle"
             /\ \A q \in Callers : pc[q] # "closing"
             /\ Return(p, op, "ok", None)
             /\ UNCHANGED <<storeVars, svcVars, faults, histVars, envVars>>
        ELSE OpCall(p, op)

\* UPDATE meal_entries SET <fields>, updated_at = ? WHERE id = ?
UpdatedRow(r, op) ==
    [c \in DOMAIN r |->
        IF c = "updated_at" THEN op.now
        ELSE IF c \in op.fields THEN op[c]
        ELSE r[c]]

UpdateStmt(T, op) ==
    LET t == T["meal_entries"]
    IN  IF ~t.exists
        THEN StmtErr(T, indexes)
        ELSE StmtOk([T EXCEPT !["meal_entries"].rows =
                        {IF r.id = op.id THEN UpdatedRow(r, op) ELSE r : r \in t.rows}],
                    indexes)

\* createError returns a plain object, so the catch block's
\* "error instanceof Error && ..." is false for the ENTRY_NOT_FOUND it threw
\* and the error is wrapped in the operation's generic failure
UpdateDone(p) ==
    /\ pc[p] = "update"
    /\ LET r == UpdateStmt(tables, cur[p])
       IN \/ r.ok /\ Changes(tables, cur[p]) # 0 /\ Finish(p, "ok", r.tables, None)
          \/ /\ ~r.ok \/ Changes(tables, cur[p]) = 0
             /\ Finish(p, "UPDATE_FAILED", tables, None)
          \/ Faulted(p, "UPDATE_FAILED")

\* deleteMealEntry(id)
DeleteCall(p, id) == OpCall(p, [NoOp EXCEPT !.kind = "delete", !.id = id])

\* DELETE FROM meal_entries WHERE id = ?
DeleteStmt(T, op) ==
    LET t == T["meal_entries"]
    IN  IF ~t.exists
        THEN StmtErr(T, indexes)
        ELSE StmtOk([T EXCEPT !["meal_entries"].rows = {r \in t.rows : r.id # op.id}],
                    indexes)

DeleteDone(p) ==
    /\ pc[p] = "delete"
    /\ LET r == DeleteStmt(tables, cur[p])
       IN \/ r.ok /\ Changes(tables, cur[p]) # 0 /\ Finish(p, "ok", r.tables, None)
          \/ /\ ~r.ok \/ Changes(tables, cur[p]) = 0
             /\ Finish(p, "DELETE_FAILED", tables, None)
          \/ Faulted(p, "DELETE_FAILED")

\* getMealEntriesByDate(date)
ByDateCall(p, date) == OpCall(p, [NoOp EXCEPT !.kind = "byDate", !.date = date])

ByDateDone(p) ==
    /\ pc[p] = "byDate"
    /\ \/ /\ tables["meal_entries"].exists
          /\ Finish(p, "ok", tables, Some(getMealEntriesByDate(tables, cur[p].date)))
       \/ /\ ~tables["meal_entries"].exists
          /\ Finish(p, "QUERY_FAILED", tables, None)
       \/ Faulted(p, "QUERY_FAILED")

\* getMealEntriesInRange(startDate, endDate)
InRangeCall(p, startDate, endDate) ==
    OpCall(p, [NoOp EXCEPT !.kind = "inRange", !.date = startDate, !.endDate = endDate])

InRangeDone(p) ==
    /\ pc[p] = "inRange"
    /\ \/ /\ tables["meal_entries"].exists
          /\ Finish(p, "ok", tables,
                    Some(getMealEntriesInRange(tables, cur[p].date, cur[p].endDate)))
       \/ /\ ~tables["meal_entries"].exists
          /\ Finish(p, "QUERY_FAILED", tables, None)
       \/ Faulted(p, "QUERY_FAILED")

\* getDailySummary(date): its first await is getMealEntriesByDate(date), whose
\* guard throws to the caller
SummaryCall(p, date) == OpCall(p, [NoOp EXCEPT !.kind = "summary", !.date = date])

\* the day's entries have been read.  With entries, the summary gets its gaps
\* and calculateFastingWindow(date, entries) runs up to its await of
\* getMealEntriesByDate(yesterdayStr); whatever that call throws is caught
\* there and the window is left undefined.
SummaryTodayDone(p) ==
    /\ pc[p] = "summary"
    /\ \/ /\ tables["meal_entries"].exists
          /\ LET entries == getMealEntriesByDate(tables, cur[p].date)
                 summary == SummaryOfEntries(cur[p].date, entries)
             IN  IF Len(entries) = 0 \/ NotInitialized
                 THEN Finish(p, "ok", tables, Some(summary))
                 ELSE /\ Goto(p, "summaryYesterday")
                      /\ cur' = [cur EXCEPT ![p].today = entries]
                      /\ Silent
                      /\ UNCHANGED <<storeVars, svcVars, faults, histVars, envVars>>
       \/ /\ ~tables["meal_entries"].exists
          /\ Finish(p, "QUERY_FAILED", tables, None)
       \/ Faulted(p, "QUERY_FAILED")

\* yesterday's entries have been read (or the query failed, which the catch
\* block of calculateFastingWindow turns into "no window")
SummaryYesterdayDone(p) ==
    /\ pc[p] = "summaryYesterday"
    /\ LET summary == SummaryOfEntries(cur[p].date, cur[p].today)
           yesterdayStr == getDateStringWithOffset(cur[p].date, -1)
           window == dbCalculateFastingWindow(
                         getMealEntriesByDate(tables, yesterdayStr), cur[p].today)
       IN \/ /\ tables["meal_entries"].exists
             /\ Finish(p, "ok", tables, Some([summary EXCEPT !.fastingWindow = window]))
          \/ /\ ~tables["meal_entries"].exists
             /\ Finish(p, "ok", tables, Some(summary))
          \/ /\ CanFault
             /\ faults' = faults + 1
             /\ Return(p, cur[p], "ok", Some(summary))
             /\ UNCHANGED <<storeVars, svcVars, histVars, envVars>>

---------------------------------------------------------------------------
(* The stores an installation can start from *)

SampleRows == {SampleRow(i) : i \in RowIds}

\* no database yet; a database of the old schema (with the date column and
\* its two indexes), possibly with the temporary table a failed migration
\* left behind; a database of the current schema
InitialStores ==
    {[tables |-> [meal_entries |-> NoTable, meal_entries_new |-> NoTable],
      indexes |-> {}]}
    \cup
    {[tables |-> [meal_entries |-> Table(OldCols, {WithDate(r) : r \in S}),
                  meal_entries_new |-> tmp],
      indexes |-> {IndexName, "idx_meal_entries_date"}] :
        S \in SUBSET SampleRows,
        tmp \in {NoTable, Table(NewCols, {}), Table(NewCols, SampleRows)}}
    \cup
    {[tables |-> [meal_entries |-> Table(NewCols, S), meal_entries_new |-> NoTable],
      indexes |-> {IndexName}] : S \in SUBSET SampleRows}

NoCalc == [fn |-> "none"]

\* MealDataContext's initialState (error is not modelled)
initialState == [todayEntries |-> <<>>, todaySummary |-> None, isLoading |-> FALSE]

\* no StorageService call has returned
NoStorageReturn == [call |-> "none", status |-> "none", asked |-> None, hours |-> 0]

\* a fresh install: nothing under "@gutrest:settings"
NoSettings == asyncStorage = None /\ storageRet = NoStorageReturn

\* the MealData context is not mounted, and the install is fresh
NoContext == ctx = initialState /\ clock = 0 /\ NoSettings

\* the service as constructed: db = null, isInitialized = false
ServiceInit ==
    /\ db = Null
    /\ isInitialized = FALSE
    /\ faults = 0
    /\ pc = [p \in Callers |-> "idle"]
    /\ cur = [p \in Callers |-> NoOp]
    /\ ret = NoReturn
    /\ initCompleted = FALSE
    /\ migrationFailed = FALSE
    /\ completedRuns = 0

Init ==
    /\ \E s \in InitialStores : tables = s.tables /\ indexes = s.indexes
    /\ installed = [tables |-> tables, indexes |-> indexes]
    /\ ServiceInit
    /\ utcOffset = 0
    /\ calcIn = NoCalc
    /\ calcOut = None
    /\ NoContext

\* initialize() and close(), as called by p
Lifecycle(p) ==
    \/ InitializeCall(p)
    \/ OpenDone(p)
    \/ TableInfoDone(p)
    \/ ColumnInfoDone(p)
    \/ DropTempDone(p)
    \/ CreateNewDone(p)
    \/ CopyDone(p)
    \/ DropOldDone(p)
    \/ RenameDone(p)
    \/ IndexDone(p)
    \/ CtTableDone(p)
    \/ CtIndexDone(p)
    \/ CloseCall(p)
    \/ CloseDone(p)

\* the inputs the callers of the service use
CallDates == {0}
CallCategories == {"fruit"}
CallTimestamps == {HourMs}
CallFields == {{}, {"category"}}

StoreOps(p) ==
    \/ \E c \in CallCategories, t \in CallTimestamps : InsertCall(p, c, t, t)
    \/ InsertDone(p)
    \/ \E i \in RowIds, f \in CallFields, c \in CallCategories, t \in CallTimestamps :
          UpdateCall(p, i, f, c, t, "", t)
    \/ UpdateDone(p)
    \/ \E i \in RowIds : DeleteCall(p, i)
    \/ DeleteDone(p)
    \/ \E d \in CallDates : ByDateCall(p, d)
    \/ ByDateDone(p)
    \/ \E d \in CallDates, e \in CallDates : InRangeCall(p, d, e)
    \/ InRangeDone(p)
    \/ \E d \in CallDates : SummaryCall(p, d)
    \/ SummaryTodayDone(p)
    \/ SummaryYesterdayDone(p)

Next == \E p \in Callers : Lifecycle(p) \/ StoreOps(p)

Spec == Init /\ [][Next]_vars

\* callers that initialize and close the service, with no store operation running
NextLifecycle == \E p \in Callers : Lifecycle(p)

SpecLifecycle == Init /\ [][NextLifecycle]_vars

\* one caller that initializes and closes the service, with nothing else running
NextMigration == Lifecycle(1)

SpecMigration == Init /\ [][NextMigration]_vars

---------------------------------------------------------------------------
(* TimeCalculationService called on its own (SpecCalc)                     *)

MaxLen == 3

\* a MealEntry as the calculations see it
CalcEntry(i, t) ==
    [id |-> i, category |-> "fruit", timestamp |-> t, notes |-> "",
     createdAt |-> t, updatedAt |-> t]

GapTimestamps == {0, 90 * MsPerMinute, 16 * HourMs}
GapEntries == {CalcEntry(i, t) : i \in 1..2, t \in GapTimestamps}

\* every list of at most MaxLen entries, in any order
EntryLists == UNION {[1..n -> GapEntries] : n \in 0..MaxLen}

\* the distance from the last entry of yesterday to the first of today
Durations == {0, 1, 16 * HourMs - MsPerMinute, 16 * HourMs - 1, 16 * HourMs,
              17 * HourMs, 48 * HourMs, 48 * HourMs + 1}
LastTimes == {0, HourMs}
FirstTimes == {0} \cup {l + d : l \in LastTimes, d \in Durations}

\* the goals the settings offer, the time of the call, and the time since the
\* last entry: around the goal, and at exact halves of a percent of the goal
FastingGoals == {8, 16, 24}
StatusNow == 72 * HourMs
FastDurations(goalHours) ==
    {-HourMs, 0, 1, 45 * MsPerMinute, goalHours * HourMs - 1, goalHours * HourMs,
     18 * HourMs, 48 * HourMs}
    \cup {(2 * k + 1) * goalHours * 18000 : k \in {0, 1, 2, 3, 14, 28, 49}}
    \cup {-(2 * k + 1) * goalHours * 18000 : k \in {0, 3}}

\* the durations formatted: negative, below a minute, whole minutes and
\* hours, and each of them with some milliseconds over
FormattedDurations ==
    {-MsPerMinute, -1}
    \cup {m * MsPerMinute + over :
             m \in {0, 1, 9, 10, 45, 59, 60, 61, 120, 125, 600, 609, 1440, 2879, 6000},
             over \in {0, 1, 30000, MsPerMinute - 1}}

\* the summaries handed to getDailyStats: any gaps in any order (equal
\* durations at different times included), with or without a fasting window
StatGaps ==
    {[startTime |-> t, endTime |-> t + d, durationMs |-> d,
      durationFormatted |-> formatDuration(d)] :
        t \in {0, 5 * HourMs}, d \in {HourMs, 90 * MsPerMinute}}
StatWindows ==
    {None} \cup {calculateFastingWindow(Some(CalcEntry(1, 0)), Some(CalcEntry(2, d))) :
                    d \in {12 * HourMs, 16 * HourMs}}
StatSummaries ==
    {[date |-> 1, entries |-> es, gaps |-> gs, fastingWindow |-> w] :
        es \in {<<>>, <<CalcEntry(1, 0), CalcEntry(2, HourMs)>>},
        gs \in UNION {[1..n -> StatGaps] : n \in 0..MaxLen},
        w \in StatWindows}

\* the daily summaries analysed: days of 0 to 3 entries in ascending order,
\* with no fasting window, a 12-hour one or a 16-hour one
PatternDays ==
    {<<>>, <<CalcEntry(1, 0)>>, <<CalcEntry(1, 0), CalcEntry(2, 3 * HourMs)>>,
     <<CalcEntry(1, 0), CalcEntry(2, HourMs), CalcEntry(3, 10 * HourMs)>>}
PatternSummaries ==
    {[date |-> 1, entries |-> es, totalEntries |-> Len(es), gaps |-> calculateGaps(es),
      fastingWindow |-> w] : es \in PatternDays, w \in StatWindows}
SummaryLists == UNION {[1..n -> PatternSummaries] : n \in 0..MaxLen}

CalcInputs ==
    {[fn |-> "calculateGaps", given |-> es, entries |-> es] : es \in EntryLists}
    \cup
    {[fn |-> "calculateFastingWindow", last |-> l, first |-> f] :
        l \in {None} \cup {Some(CalcEntry(1, t)) : t \in LastTimes},
        f \in {None} \cup {Some(CalcEntry(2, t)) : t \in FirstTimes}}
    \cup
    {[fn |-> "formatDuration", ms |-> ms] : ms \in FormattedDurations}
    \cup
    {[fn |-> "analyzeEatingPatterns", summaries |-> ss] : ss \in SummaryLists}
    \cup
    {[fn |-> "getDailyStats", summary |-> summary] : summary \in StatSummaries}
    \cup
    {[fn |-> "parseDuration", ms |-> ms, durationString |-> formatDuration(ms)] :
        ms \in FormattedDurations}
    \cup
    UNION {{[fn |-> "getCurrentFastingStatus", last |-> l, goalHours |-> g,
             now |-> StatusNow] :
               l \in {None} \cup {Some(CalcEntry(1, StatusNow - d)) : d \in FastDurations(g)}} :
           g \in FastingGoals}

InitCalc ==
    /\ tables = [meal_entries |-> NoTable, meal_entries_new |-> NoTable]
    /\ indexes = {}
    /\ installed = [tables |-> tables, indexes |-> indexes]
    /\ ServiceInit
    /\ utcOffset = 0
    /\ calcIn \in CalcInputs
    /\ calcOut = None
    /\ NoContext

\* TimeCalculationService.calculateGaps(entries) is called and returns
CalculateGapsCall ==
    /\ calcIn.fn = "calculateGaps"
    /\ calcOut = None
    /\ calcOut' = Some(calculateGaps(calcIn.entries))
    /\ calcIn' = [calcIn EXCEPT !.entries = ArgumentAfterCalculateGaps(calcIn.entries)]
    /\ UNCHANGED <<storeVars, svcVars, faults, pc, cur, ret, histVars, utcOffset, uiVars>>

\* TimeCalculationService.calculateFastingWindow(last, first) is called and returns
CalculateFastingWindowCall ==
    /\ calcIn.fn = "calculateFastingWindow"
    /\ calcOut = None
    /\ calcOut' = Some(calculateFastingWindow(calcIn.last, calcIn.first))
    /\ UNCHANGED <<storeVars, svcVars, faults, pc, cur, ret, histVars, utcOffset, calcIn,
                   uiVars>>

\* TimeCalculationService.getCurrentFastingStatus(last, goalHours) is called
\* at time now and returns
GetCurrentFastingStatusCall ==
    /\ calcIn.fn = "getCurrentFastingStatus"
    /\ calcOut = None
    /\ calcOut' = Some(getCurrentFastingStatus(calcIn.last, calcIn.goalHours, calcIn.now))
    /\ UNCHANGED <<storeVars, svcVars, faults, pc, cur, ret, histVars, utcOffset, calcIn,
                   uiVars>>

\* TimeCalculationService.formatDuration(ms) is called and returns
FormatDurationCall ==
    /\ calcIn.fn = "formatDuration"
    /\ calcOut = None
    /\ calcOut' = Some(formatDuration(calcIn.ms))
    /\ UNCHANGED <<storeVars, svcVars, faults, pc, cur, ret, histVars, utcOffset, calcIn,
                   uiVars>>

\* TimeCalculationService.parseDuration(durationString) is called on a
\* formatted duration and returns
ParseDurationCall ==
    /\ calcIn.fn = "parseDuration"
    /\ calcOut = None
    /\ calcOut' = Some(parseDuration(calcIn.durationString))
    /\ UNCHANGED <<storeVars, svcVars, faults, pc, cur, ret, histVars, utcOffset, calcIn,
                   uiVars>>

\* TimeCalculationService.getDailyStats(summary) is called and returns
GetDailyStatsCall ==
    /\ calcIn.fn = "getDailyStats"
    /\ calcOut = None
    /\ calcOut' = Some(getDailyStats(calcIn.summary))
    /\ UNCHANGED <<storeVars, svcVars, faults, pc, cur, ret, histVars, utcOffset, calcIn,
                   uiVars>>

\* TimeCalculationService.analyzeEatingPatterns(summaries) is called and returns
AnalyzeEatingPatternsCall ==
    /\ calcIn.fn = "analyzeEatingPatterns"
    /\ calcOut = None
    /\ calcOut' = Some(analyzeEatingPatterns(calcIn.summaries))
    /\ UNCHANGED <<storeVars, svcVars, faults, pc, cur, ret, histVars, utcOffset, calcIn,
                   uiVars>>

NextCalc ==
    \/ FormatDurationCall
    \/ AnalyzeEatingPatternsCall
    \/ GetDailyStatsCall
    \/ ParseDurationCall
    \/ CalculateGapsCall
    \/ CalculateFastingWindowCall
    \/ GetCurrentFastingStatusCall

SpecCalc == InitCalc /\ [][NextCalc]_vars

---------------------------------------------------------------------------
(* The day queries of an initialized service on devices of several         *)
(* timezones (SpecDay)                                                     *)

MaxEvents == 2

\* UTC-5, UTC and UTC+5:30
Offsets == {-5 * HourMs, 0, 330 * MsPerMinute}

\* events are logged at local midnight and at the last millisecond of a
\* local day
LocalDays == {1, 2, 3}
TimesOfDay == {0, DayMs - 1}
EventCategories == {"water", "heavy_meal"}
QueryDates == 0..4

\* the row insertMealEntry stored for an event logged at the local time tod
\* of the local day, on a device at offset
EventRow(i, category, day, tod, offset) ==
    [id |-> i, category |-> category, timestamp |-> day * DayMs + tod - offset,
     notes |-> "", created_at |-> day * DayMs + tod - offset,
     updated_at |-> day * DayMs + tod - offset]

EventChoices == EventCategories \X LocalDays \X TimesOfDay

\* the rows of every store of at most MaxEvents events
StoresOfEvents(offset) ==
    UNION {{{EventRow(i, f[i][1], f[i][2], f[i][3], offset) : i \in 1..n} :
               f \in [1..n -> EventChoices]} : n \in 0..MaxEvents}

InitDay ==
    /\ utcOffset \in Offsets
    /\ \E rows \in StoresOfEvents(utcOffset) :
          tables = [meal_entries |-> Table(NewCols, rows), meal_entries_new |-> NoTable]
    /\ indexes = {IndexName}
    /\ installed = [tables |-> tables, indexes |-> indexes]
    /\ db = Handle
    /\ isInitialized = TRUE
    /\ faults = MaxFaults   \* the queries of this device do not fail
    /\ pc = [p \in Callers |-> "idle"]
    /\ cur = [p \in Callers |-> NoOp]
    /\ ret = NoReturn
    /\ initCompleted = TRUE
    /\ migrationFailed = FALSE
    /\ completedRuns = 1
    /\ calcIn = NoCalc
    /\ calcOut = None
    /\ NoContext

\* one screen querying days and ranges of days
NextDay ==
    \/ \E d \in QueryDates : ByDateCall(1, d)
    \/ ByDateDone(1)
    \/ \E d \in QueryDates, e \in QueryDates : d <= e /\ InRangeCall(1, d, e)
    \/ InRangeDone(1)
    \/ \E d \in QueryDates : SummaryCall(1, d)
    \/ SummaryTodayDone(1)
    \/ SummaryYesterdayDone(1)

SpecDay == InitDay /\ [][NextDay]_vars

---------------------------------------------------------------------------
(* The MealData context over an initialized service (SpecContext).  One    *)
(* call of the context runs at a time, so each action is a whole call:     *)
(* its service calls and its dispatches, in the order of the code.         *)

\* getDailySummary(date) run to its end with no query failing
getDailySummary(T, date) ==
    LET entries == getMealEntriesByDate(T, date)
        summary == SummaryOfEntries(date, entries)
    IN  IF Len(entries) = 0 THEN summary
        ELSE [summary EXCEPT !.fastingWindow =
                 dbCalculateFastingWindow(
                     getMealEntriesByDate(T, getDateStringWithOffset(date, -1)),
                     entries)]

\* getTodayDateString(): getLocalDateString(new Date())
getTodayDateString == getLocalDateString(clock)

\* mealDataReducer
ReduceAddEntry(state, entry) ==
    [state EXCEPT !.todayEntries = SortedCopy(Append(state.todayEntries, entry))]
ReduceUpdateEntry(state, id, entry) ==
    [state EXCEPT !.todayEntries =
        [i \in DOMAIN state.todayEntries |->
            IF state.todayEntries[i].id = id THEN entry ELSE state.todayEntries[i]]]
ReduceDeleteEntry(state, id) ==
    [state EXCEPT !.todayEntries =
        SelectSeq(state.todayEntries, LAMBDA e : e.id # id)]

\* loadTodayData over the tables T: both queries, then SET_TODAY_ENTRIES and
\* SET_TODAY_SUMMARY
LoadedState(T) ==
    [todayEntries |-> getMealEntriesByDate(T, getTodayDateString),
     todaySummary |-> Some(getDailySummary(T, getTodayDateString)),
     isLoading |-> FALSE]

\* the check "is the entry for today" of addMealEntry
IsToday(timestamp) ==
    timestamp >= SetHoursStartOfDay(clock) /\ timestamp <= SetHoursEndOfDay(clock)

\* the events the user logs and edits: yesterday evening, this morning, noon
ContextClocks == {2 * DayMs + 13 * HourMs}
ContextTimestamps == {DayMs + 20 * HourMs, 2 * DayMs + 8 * HourMs,
                      2 * DayMs + 12 * HourMs}
ContextCategories == {"water", "heavy_meal"}
ContextIds == 1..MaxEvents
ContextPatches == SUBSET {"category", "timestamp"}

ContextFrame ==
    UNCHANGED <<indexes, svcVars, faults, pc, cur, ret, histVars, utcOffset,
                calcIn, calcOut, clock, prefVars>>

InitContext ==
    /\ utcOffset = 0
    /\ tables = [meal_entries |-> Table(NewCols, {}), meal_entries_new |-> NoTable]
    /\ indexes = {IndexName}
    /\ installed = [tables |-> tables, indexes |-> indexes]
    /\ db = Handle
    /\ isInitialized = TRUE
    /\ faults = 0
    /\ pc = [p \in Callers |-> "idle"]
    /\ cur = [p \in Callers |-> NoOp]
    /\ ret = NoReturn
    /\ initCompleted = TRUE
    /\ migrationFailed = FALSE
    /\ completedRuns = 1
    /\ calcIn = NoCalc
    /\ calcOut = None
    /\ clock \in ContextClocks
    /\ ctx = LoadedState(tables)
    /\ NoSettings

\* refreshData(): loadTodayData()
ContextRefreshData ==
    /\ ctx' = LoadedState(tables)
    /\ tables' = tables
    /\ ContextFrame

\* addMealEntry(category, timestamp)
ContextAddMealEntry(category, timestamp) ==
    \E id \in ContextIds :
        /\ id \notin {r.id : r \in tables["meal_entries"].rows}
        /\ LET op == [NoOp EXCEPT !.kind = "insert", !.id = id,
                                  !.category = category, !.timestamp = timestamp,
                                  !.now = clock]
               r == InsertStmt(tables, op)
           IN  /\ r.ok
               /\ tables' = r.tables
               /\ ctx' = IF IsToday(timestamp) THEN LoadedState(r.tables) ELSE ctx
        /\ ContextFrame

\* updateMealEntry(id, updates): the service call, UPDATE_ENTRY for an entry
\* of todayEntries, and loadTodayData() only if (updates.timestamp)
ContextUpdateMealEntry(id, fields, category, timestamp) ==
    LET op == [NoOp EXCEPT !.kind = "update", !.id = id, !.fields = fields,
                           !.category = category, !.timestamp = timestamp,
                           !.now = clock]
        T == IF fields = {} THEN tables ELSE UpdateStmt(tables, op).tables
        found == \E i \in DOMAIN ctx.todayEntries : ctx.todayEntries[i].id = id
        existingEntry == ctx.todayEntries[CHOOSE i \in DOMAIN ctx.todayEntries :
                                             ctx.todayEntries[i].id = id]
        updatedEntry == [c \in DOMAIN existingEntry |->
                            IF c = "updatedAt" THEN clock
                            ELSE IF c \in fields THEN op[c]
                            ELSE existingEntry[c]]
    IN  /\ fields = {} \/ Changes(tables, op) # 0
        /\ tables' = T
        /\ ctx' = IF "timestamp" \in fields /\ timestamp # 0
                  THEN LoadedState(T)
                  ELSE IF found THEN ReduceUpdateEntry(ctx, id, updatedEntry)
                  ELSE ctx
        /\ ContextFrame

\* deleteMealEntry(id): the service call, DELETE_ENTRY, loadTodayData()
ContextDeleteMealEntry(id) ==
    LET op == [NoOp EXCEPT !.kind = "delete", !.id = id]
    IN  /\ Changes(tables, op) # 0
        /\ tables' = DeleteStmt(tables, op).tables
        /\ ctx' = LoadedState(DeleteStmt(tables, op).tables)
        /\ ContextFrame

NextContext ==
    \/ ContextRefreshData
    \/ \E c \in ContextCategories, t \in ContextTimestamps : ContextAddMealEntry(c, t)
    \/ \E i \in ContextIds, f \in ContextPatches, c \in ContextCategories,
          t \in ContextTimestamps : ContextUpdateMealEntry(i, f, c, t)
    \/ \E i \in ContextIds : ContextDeleteMealEntry(i)

SpecContext == InitContext /\ [][NextContext]_vars

---------------------------------------------------------------------------
(* The MealData context with its calls overlapping (SpecOverlap): each     *)
(* caller is one call of a context operation, suspended at its awaits.     *)
(* The awaited initialize() of an initialized service changes nothing and  *)
(* is not a step of its own; getDailySummary reads the store in one step.  *)

\* the events logged and the edits made while calls overlap: meals of this
\* morning and noon, an edit of the category or of the time
OverlapCategories == {"heavy_meal"}
OverlapTimestamps == {2 * DayMs + 8 * HourMs, 2 * DayMs + 12 * HourMs}
OverlapUpdates ==
    {[fields |-> {"category"}, category |-> c, timestamp |-> 0] : c \in OverlapCategories}
    \cup {[fields |-> {"timestamp"}, category |-> "", timestamp |-> t] :
             t \in OverlapTimestamps}

\* the user makes one edit at a time: an add, update or delete starts when
\* no other is in flight (a pull-to-refresh may be, and may start at any time)
NoEditInFlight == \A q \in Callers : pc[q] = "idle" \/ cur[q].kind = "load"

OverlapFrame ==
    UNCHANGED <<indexes, svcVars, ret, histVars, utcOffset, calcIn, calcOut, clock,
                prefVars>>

\* loadTodayData() up to its first await, applied to the state the caller's
\* dispatches so far have produced: SET_LOADING true
LoadStarts(p, state) ==
    /\ ctx' = [state EXCEPT !.isLoading = TRUE]
    /\ pc' = [pc EXCEPT ![p] = "ctxEntries"]

\* the call of p ends (normally, or in its catch block)
HandlerEnds(p, state) ==
    /\ ctx' = state
    /\ pc' = [pc EXCEPT ![p] = "idle"]

\* refreshData(): loadTodayData()
RefreshDataCall(p) ==
    /\ pc[p] = "idle"
    /\ LoadStarts(p, ctx)
    /\ cur' = [cur EXCEPT ![p] = [NoOp EXCEPT !.kind = "load"]]
    /\ UNCHANGED <<tables, faults>>
    /\ OverlapFrame

\* await databaseService.getMealEntriesByDate(todayDate) returns or throws;
\* on a throw: SET_ERROR, and SET_LOADING false in the finally block
LoadEntriesDone(p) ==
    /\ pc[p] = "ctxEntries"
    /\ \/ /\ cur' = [cur EXCEPT ![p].today =
                        getMealEntriesByDate(tables, getTodayDateString)]
          /\ pc' = [pc EXCEPT ![p] = "ctxSummary"]
          /\ UNCHANGED <<ctx, faults>>
       \/ /\ CanFault
          /\ faults' = faults + 1
          /\ HandlerEnds(p, [ctx EXCEPT !.isLoading = FALSE])
          /\ cur' = [cur EXCEPT ![p] = NoOp]
    /\ UNCHANGED tables
    /\ OverlapFrame

\* await databaseService.getDailySummary(todayDate) returns or throws:
\* SET_TODAY_ENTRIES and SET_TODAY_SUMMARY, then SET_LOADING false
LoadSummaryDone(p) ==
    /\ pc[p] = "ctxSummary"
    /\ \/ /\ HandlerEnds(p, [todayEntries |-> cur[p].today,
                             todaySummary |-> Some(getDailySummary(tables, getTodayDateString)),
                             isLoading |-> FALSE])
          /\ UNCHANGED faults
       \/ /\ CanFault
          /\ faults' = faults + 1
          /\ HandlerEnds(p, [ctx EXCEPT !.isLoading = FALSE])
    /\ cur' = [cur EXCEPT ![p] = NoOp]
    /\ UNCHANGED tables
    /\ OverlapFrame

\* addMealEntry(category, timestamp) up to await insertMealEntry(entryData)
AddMealEntryCall(p, category, timestamp) ==
    /\ pc[p] = "idle"
    /\ NoEditInFlight
    /\ \E id \in ContextIds :
          /\ id \notin {r.id : r \in tables["meal_entries"].rows}
          /\ cur' = [cur EXCEPT ![p] =
                        [NoOp EXCEPT !.kind = "insert", !.id = id, !.category = category,
                                     !.timestamp = timestamp, !.now = clock]]
    /\ pc' = [pc EXCEPT ![p] = "ctxInsert"]
    /\ UNCHANGED <<tables, faults, ctx>>
    /\ OverlapFrame

\* insertMealEntry returns newEntry: ADD_ENTRY and loadTodayData() if (isToday)
AddMealEntryInserted(p) ==
    /\ pc[p] = "ctxInsert"
    /\ LET r == InsertStmt(tables, cur[p])
           newEntry == [id |-> cur[p].id, category |-> cur[p].category,
                        timestamp |-> cur[p].timestamp, notes |-> cur[p].notes,
                        createdAt |-> cur[p].now, updatedAt |-> cur[p].now]
       IN  /\ r.ok
           /\ tables' = r.tables
           /\ IF IsToday(cur[p].timestamp)
              THEN /\ LoadStarts(p, ReduceAddEntry(ctx, newEntry))
                   /\ UNCHANGED cur
              ELSE /\ HandlerEnds(p, ctx)
                   /\ cur' = [cur EXCEPT ![p] = NoOp]
    /\ UNCHANGED faults
    /\ OverlapFrame

\* updateMealEntry(id, updates) up to await databaseService.updateMealEntry;
\* the callback holds the todayEntries of the render that created it
UpdateMealEntryCall(p, id, fields, category, timestamp) ==
    /\ pc[p] = "idle"
    /\ NoEditInFlight
    /\ cur' = [cur EXCEPT ![p] =
                  [NoOp EXCEPT !.kind = "update", !.id = id, !.fields = fields,
                               !.category = category, !.timestamp = timestamp,
                               !.now = clock, !.today = ctx.todayEntries]]
    /\ pc' = [pc EXCEPT ![p] = "ctxUpdate"]
    /\ UNCHANGED <<tables, faults, ctx>>
    /\ OverlapFrame

\* the service call returns or throws ENTRY_NOT_FOUND: UPDATE_ENTRY for an
\* entry found in the callback's todayEntries, loadTodayData() if
\* (updates.timestamp)
UpdateMealEntryUpdated(p) ==
    /\ pc[p] = "ctxUpdate"
    /\ LET op == cur[p]
           held == op.today
           found == \E i \in DOMAIN held : held[i].id = op.id
           existingEntry == held[CHOOSE i \in DOMAIN held : held[i].id = op.id]
           updatedEntry == [c \in DOMAIN existingEntry |->
                               IF c = "updatedAt" THEN clock
                               ELSE IF c \in op.fields THEN op[c]
                               ELSE existingEntry[c]]
           dispatched == IF found THEN ReduceUpdateEntry(ctx, op.id, updatedEntry)
                         ELSE ctx
       IN  IF op.fields # {} /\ Changes(tables, op) = 0
           THEN /\ HandlerEnds(p, ctx)
                /\ cur' = [cur EXCEPT ![p] = NoOp]
                /\ UNCHANGED tables
           ELSE /\ tables' = IF op.fields = {} THEN tables
                             ELSE UpdateStmt(tables, op).tables
                /\ IF "timestamp" \in op.fields /\ op.timestamp # 0
                   THEN /\ LoadStarts(p, dispatched)
                        /\ UNCHANGED cur
                   ELSE /\ HandlerEnds(p, dispatched)
                        /\ cur' = [cur EXCEPT ![p] = NoOp]
    /\ UNCHANGED faults
    /\ OverlapFrame

\* deleteMealEntry(id) up to await databaseService.deleteMealEntry(id)
DeleteMealEntryCall(p, id) ==
    /\ pc[p] = "idle"
    /\ NoEditInFlight
    /\ cur' = [cur EXCEPT ![p] = [NoOp EXCEPT !.kind = "delete", !.id = id]]
    /\ pc' = [pc EXCEPT ![p] = "ctxDelete"]
    /\ UNCHANGED <<tables, faults, ctx>>
    /\ OverlapFrame

\* the service call returns or throws ENTRY_NOT_FOUND: DELETE_ENTRY, then
\* loadTodayData()
DeleteMealEntryDeleted(p) ==
    /\ pc[p] = "ctxDelete"
    /\ IF Changes(tables, cur[p]) = 0
       THEN /\ HandlerEnds(p, ctx)
            /\ cur' = [cur EXCEPT ![p] = NoOp]
            /\ UNCHANGED tables
       ELSE /\ tables' = DeleteStmt(tables, cur[p]).tables
            /\ LoadStarts(p, ReduceDeleteEntry(ctx, cur[p].id))
            /\ UNCHANGED cur
    /\ UNCHANGED faults
    /\ OverlapFrame

NextOverlap ==
    \E p \in Callers :
        \/ RefreshDataCall(p)
        \/ LoadEntriesDone(p)
        \/ LoadSummaryDone(p)
        \/ \E c \in OverlapCategories, t \in OverlapTimestamps : AddMealEntryCall(p, c, t)
        \/ AddMealEntryInserted(p)
        \/ \E i \in ContextIds, u \in OverlapUpdates :
              UpdateMealEntryCall(p, i, u.fields, u.category, u.timestamp)
        \/ UpdateMealEntryUpdated(p)
        \/ \E i \in ContextIds : DeleteMealEntryCall(p, i)
        \/ DeleteMealEntryDeleted(p)

SpecOverlap == InitContext /\ [][NextOverlap]_vars

\* the stats screen over the context's state: the last entry of todayEntries
\* whose category breaks a fast, or null
lastFastingBreakingMeal ==
    LET fastingBreakingMeals ==
            SelectSeq(ctx.todayEntries, LAMBDA entry : doesCategoryBreakFasting(entry.category))
    IN  IF Len(fastingBreakingMeals) > 0
        THEN Some(fastingBreakingMeals[Len(fastingBreakingMeals)])
        ELSE None

\* the goal the stats screen passes to FastingStatus
StatsFastingGoalHours == {16}

\* FastingStatus: the status rendered from lastMealEntry at the current time
fastingStatus ==
    getCurrentFastingStatus(lastFastingBreakingMeal,
                            CHOOSE g \in StatsFastingGoalHours : TRUE, clock)

---------------------------------------------------------------------------
(* StorageServiceImpl: the app settings kept in AsyncStorage                *)
(* (SpecSettings).  One call runs at a time, and AsyncStorage itself does   *)
(* not fail.                                                                *)

Themes == {"light", "dark", "system"}

\* AppSettings, as far as the fasting goal is concerned
AppSettings(theme, hours) == [theme |-> theme, fastingGoalHours |-> hours]

\* JSON.stringify and JSON.parse of an AppSettings object: the text is modelled
\* by the list of its members' values
JsonStringify(settings) == <<"{", settings.theme, settings.fastingGoalHours, "}">>
JsonParse(text) == [theme |-> text[2], fastingGoalHours |-> text[3]]

\* getAppSettings(): getSettings("settings", defaultSettings) over the item
defaultSettings == AppSettings("system", 16)
getAppSettings(item) == IF item = None THEN defaultSettings ELSE JsonParse(Get(item))

\* getFastingGoal()
getFastingGoal(item) == getAppSettings(item).fastingGoalHours

\* { ...currentSettings, ...updates }: updates holds an optional value per key
Spread(currentSettings, updates) ==
    [theme |-> IF IsSome(updates.theme) THEN Get(updates.theme)
               ELSE currentSettings.theme,
     fastingGoalHours |-> IF IsSome(updates.fastingGoalHours)
                          THEN Get(updates.fastingGoalHours)
                          ELSE currentSettings.fastingGoalHours]

\* the hours the callers ask for, and the objects they write
AskedHours == {5, 8, 18, 24, 30}
PartialSettings ==
    [theme : {None} \cup {Some(t) : t \in Themes},
     fastingGoalHours : {None} \cup {Some(h) : h \in AskedHours}]
WrittenSettings == {AppSettings(t, h) : t \in Themes, h \in AskedHours}

StorageFrame ==
    UNCHANGED <<storeVars, svcVars, faults, pc, cur, ret, histVars, utcOffset,
                calcIn, calcOut, ctx, clock>>

StorageReturn(call, status, asked, hours) ==
    storageRet' = [call |-> call, status |-> status, asked |-> asked, hours |-> hours]

\* setSettings("settings", value)
SetSettingsCall(value) ==
    /\ asyncStorage' = Some(JsonStringify(value))
    /\ StorageReturn("setSettings", "ok", Some(value.fastingGoalHours), 0)
    /\ StorageFrame

\* updateAppSettings(updates)
UpdateAppSettingsCall(updates) ==
    /\ asyncStorage' = Some(JsonStringify(Spread(getAppSettings(asyncStorage), updates)))
    /\ StorageReturn("updateAppSettings", "ok", updates.fastingGoalHours, 0)
    /\ StorageFrame

\* resetAppSettings(): removeSettings("settings")
ResetAppSettingsCall ==
    /\ asyncStorage' = None
    /\ StorageReturn("resetAppSettings", "ok", None, 0)
    /\ StorageFrame

\* setFastingGoal(hours)
SetFastingGoalCall(hours) ==
    /\ IF hours < 8 \/ hours > 24
       THEN /\ StorageReturn("setFastingGoal", "INVALID_FASTING_GOAL", Some(hours), 0)
            /\ UNCHANGED asyncStorage
       ELSE /\ asyncStorage' = Some(JsonStringify(
                    Spread(getAppSettings(asyncStorage),
                           [theme |-> None, fastingGoalHours |-> Some(hours)])))
            /\ StorageReturn("setFastingGoal", "ok", Some(hours), 0)
    /\ StorageFrame

\* getFastingGoal()
GetFastingGoalCall ==
    /\ StorageReturn("getFastingGoal", "ok", None, getFastingGoal(asyncStorage))
    /\ UNCHANGED asyncStorage
    /\ StorageFrame

\* importData(data): data holds an optional value for the key "settings"
ImportDataCall(data) ==
    /\ asyncStorage' = IF IsSome(data) THEN Some(JsonStringify(Get(data)))
                       ELSE asyncStorage
    /\ StorageReturn("importData", "ok",
                     IF IsSome(data) THEN Some(Get(data).fastingGoalHours) ELSE None, 0)
    /\ StorageFrame

InitSettings ==
    /\ tables = [meal_entries |-> NoTable, meal_entries_new |-> NoTable]
    /\ indexes = {}
    /\ installed = [tables |-> tables, indexes |-> indexes]
    /\ ServiceInit
    /\ utcOffset = 0
    /\ calcIn = NoCalc
    /\ calcOut = None
    /\ NoContext

NextSettings ==
    \/ \E value \in WrittenSettings : SetSettingsCall(value)
    \/ \E updates \in PartialSettings : UpdateAppSettingsCall(updates)
    \/ ResetAppSettingsCall
    \/ \E hours \in AskedHours : SetFastingGoalCall(hours)
    \/ GetFastingGoalCall
    \/ \E data \in {None} \cup {Some(v) : v \in WrittenSettings} : ImportDataCall(data)

SpecSettings == InitSettings /\ [][NextSettings]_vars

---------------------------------------------------------------------------
(* StorageServiceImpl with its calls overlapping (SpecSettingsOverlap):    *)
(* each caller is one call of setTheme or setFastingGoal, suspended at the *)
(* two awaits of updateAppSettings.                                        *)

\* the call of p: its updates, and the currentSettings it holds once read
SettingsCall(updates) ==
    [kind |-> "updateAppSettings", updates |-> updates, currentSettings |-> None]

SettingsOverlapFrame ==
    UNCHANGED <<storeVars, svcVars, faults, ret, histVars, utcOffset, calcIn, calcOut,
                ctx, clock>>

\* updateAppSettings(updates) up to await this.getAppSettings()
UpdateAppSettingsStarts(p, updates) ==
    /\ pc' = [pc EXCEPT ![p] = "getAppSettings"]
    /\ cur' = [cur EXCEPT ![p] = SettingsCall(updates)]
    /\ UNCHANGED prefVars

\* setTheme(theme)
SetThemeCall(p, theme) ==
    /\ pc[p] = "idle"
    /\ UpdateAppSettingsStarts(p, [theme |-> Some(theme), fastingGoalHours |-> None])
    /\ SettingsOverlapFrame

\* setFastingGoal(hours), overlapping other calls
SetFastingGoalStarts(p, hours) ==
    /\ pc[p] = "idle"
    /\ IF hours < 8 \/ hours > 24
       THEN /\ StorageReturn("setFastingGoal", "INVALID_FASTING_GOAL", Some(hours), 0)
            /\ UNCHANGED <<asyncStorage, pc, cur>>
       ELSE UpdateAppSettingsStarts(p, [theme |-> None, fastingGoalHours |-> Some(hours)])
    /\ SettingsOverlapFrame

\* const currentSettings = await this.getAppSettings() returns
GetAppSettingsDone(p) ==
    /\ pc[p] = "getAppSettings"
    /\ cur' = [cur EXCEPT ![p].currentSettings = Some(getAppSettings(asyncStorage))]
    /\ pc' = [pc EXCEPT ![p] = "setSettings"]
    /\ UNCHANGED prefVars
    /\ SettingsOverlapFrame

\* newSettings = { ...currentSettings, ...updates };
\* await this.setSettings("settings", newSettings) returns
SetSettingsDone(p) ==
    /\ pc[p] = "setSettings"
    /\ LET newSettings == Spread(Get(cur[p].currentSettings), cur[p].updates)
       IN  asyncStorage' = Some(JsonStringify(newSettings))
    /\ StorageReturn("updateAppSettings", "ok", cur[p].updates.fastingGoalHours, 0)
    /\ pc' = [pc EXCEPT ![p] = "idle"]
    /\ cur' = [cur EXCEPT ![p] = NoOp]
    /\ SettingsOverlapFrame

NextSettingsOverlap ==
    \E p \in Callers :
        \/ \E theme \in Themes : SetThemeCall(p, theme)
        \/ \E hours \in AskedHours : SetFastingGoalStarts(p, hours)
        \/ GetAppSettingsDone(p)
        \/ SetSettingsDone(p)

SpecSettingsOverlap == InitSettings /\ [][NextSettingsOverlap]_vars

---------------------------------------------------------------------------
(* dateUtils called on its own, on devices of several timezones (SpecDates) *)

BaseDates == 3..12
OffsetDays == -2..2

InitDates ==
    /\ tables = [meal_entries |-> NoTable, meal_entries_new |-> NoTable]
    /\ indexes = {}
    /\ installed = [tables |-> tables, indexes |-> indexes]
    /\ ServiceInit
    /\ utcOffset \in Offsets
    /\ calcIn \in {[fn |-> "getDateStringWithOffset", baseDate |-> d, offsetDays |-> k] :
                      d \in BaseDates, k \in OffsetDays}
    /\ calcOut = None
    /\ NoContext

\* getDateStringWithOffset(baseDate, offsetDays) is called and returns; the
\* history screen then calls it on the result with the opposite offset
GetDateStringWithOffsetCall ==
    /\ calcIn.fn = "getDateStringWithOffset"
    /\ calcOut = None
    /\ calcOut' = Some(getDateStringWithOffset(calcIn.baseDate, calcIn.offsetDays))
    /\ UNCHANGED <<storeVars, svcVars, faults, pc, cur, ret, histVars, utcOffset, calcIn,
                   uiVars>>

GoBackCall ==
    /\ calcIn.fn = "getDateStringWithOffset"
    /\ IsSome(calcOut)
    /\ calcIn' = [fn |-> "goBack", baseDate |-> calcIn.baseDate,
                  offsetDays |-> calcIn.offsetDays]
    /\ calcOut' = Some(getDateStringWithOffset(Get(calcOut), -calcIn.offsetDays))
    /\ UNCHANGED <<storeVars, svcVars, faults, pc, cur, ret, histVars, utcOffset, uiVars>>

NextDates == GetDateStringWithOffsetCall \/ GoBackCall

SpecDates == InitDates /\ [][NextDates]_vars

---------------------------------------------------------------------------
(* Properties of the schema migrator (SpecMigration: one caller)           *)

\* p's step is runMigrations failing at one of its writing statements
MigrationFailsAt(p) ==
    /\ pc[p] \in RebuildSteps
    /\ ret'.caller = p
    /\ ret'.status = "MIGRATION_FAILED"

\* C2: if runMigrations fails at any one of its steps (drop of the temporary
\* table, create of meal_entries_new, copy, drop of meal_entries, rename,
\* index creation), meal_entries still exists with its pre-migration schema
\* and rows; if no step fails, meal_entries exists without the date column.
\* The first failure of a run that started from the installed store is
\* enough to tell.
C2_FailedMigrationKeepsStore ==
    [][\A p \in Callers :
          /\ (faults = 0 /\ MigrationFailsAt(p))
                => tables'["meal_entries"] = installed.tables["meal_entries"]
          /\ (pc[p] = "index" /\ pc'[p] = "ctTable")
                => /\ tables'["meal_entries"].exists
                   /\ ~HasDateColumn(tables')]_vars

\* C3: running the migrator again on a store on which it has completed
\* changes nothing: the tables, their columns and every row stay as the
\* completed run left them, whatever the installed store was.
C3_SecondRunIsNoOp ==
    [][completedRuns >= 1 => tables' = tables /\ indexes' = indexes]_vars

\* a second run has completed on a store the first run migrated with its rows
C3_Witness ==
    /\ completedRuns = 2
    /\ HasDateColumn(installed.tables)
    /\ installed.tables["meal_entries"].rows # {}
    /\ ~HasDateColumn(tables)
    /\ ret.call = InitializeOp
    /\ ret.status = "ok"

---------------------------------------------------------------------------
(* Properties of initialize() under concurrent callers (SpecLifecycle)     *)

\* p's step is p calling initialize(): it suspends at the open, or returns
\* at once
InitializeStarts(p) ==
    /\ pc[p] = "idle"
    /\ \/ pc'[p] = "open"
       \/ ret'.caller = p /\ ret'.call = InitializeOp

\* C4: once an initialize() has completed successfully, every later
\* initialize() (until close()) returns successfully without opening the
\* database or running runMigrations/createTables, and leaves the handle,
\* the isInitialized flag and the store unchanged.
C4_LaterInitializeIsNoOp ==
    [][\A p \in Callers :
          (initCompleted /\ InitializeStarts(p))
             => /\ pc'[p] = "idle"
                /\ ret'.status = "already"
                /\ db' = db
                /\ isInitialized' = isInitialized
                /\ tables' = tables
                /\ indexes' = indexes]_vars

\* an initialize() called after a successful one has returned at once
C4_Witness ==
    /\ initCompleted
    /\ ret.call = InitializeOp
    /\ ret.status = "already"
    /\ db = Handle
    /\ isInitialized

\* C5: initialization happens at most once: no second initialize() gets
\* past the guard while a first one is suspended at an await of the open,
\* the migration or the table creation.
C5_AtMostOneInitialization ==
    Cardinality({p \in Callers : pc[p] \in InitSteps}) <= 1

---------------------------------------------------------------------------
(* Properties of the store operations against initialize() (Spec)          *)

\* p's step is p calling a store operation: it suspends at the statement,
\* or returns or throws at once
OpStarts(p) ==
    /\ pc[p] = "idle"
    /\ \/ pc'[p] \in OpSteps
       \/ ret'.caller = p /\ ret'.call.kind \in OpKinds

\* p's step is the statement of p's store operation running
OpExecutes(p) == pc[p] \in OpSteps /\ pc'[p] # pc[p]

\* C6: when initialize() failed because the migration failed, every store
\* operation is rejected as not initialized until an initialize() succeeds.
C6_RejectedAfterFailedMigration ==
    [][\A p \in Callers :
          (migrationFailed /\ ~isInitialized /\ OpStarts(p))
             => /\ pc'[p] = "idle"
                /\ ret'.status = "NOT_INITIALIZED"]_vars

\* C7: no store operation runs its statement while an initialize() that has
\* opened the database is still suspended in runMigrations/createTables.
C7_NoOperationDuringMigration ==
    [][\A p \in Callers :
          OpExecutes(p)
             => ~(~isInitialized /\ \E q \in Callers : pc[q] \in AfterOpenSteps)]_vars

---------------------------------------------------------------------------
(* Properties of TimeCalculationService (SpecCalc)                         *)

RECURSIVE SumOfDurations(_)
SumOfDurations(gaps) ==
    IF gaps = <<>> THEN 0
    ELSE gaps[1].durationMs + SumOfDurations(Tail(gaps))

\* the instants the gaps run through: the start of each and the end of the last
ChainOf(gaps) ==
    [i \in 1..(Len(gaps) + 1) |->
        IF i <= Len(gaps) THEN gaps[i].startTime ELSE gaps[Len(gaps)].endTime]

TimestampsOf(entries) == {entries[i].timestamp : i \in DOMAIN entries}

\* C8: calculateGaps returns the empty list for fewer than 2 events;
\* otherwise exactly n-1 gaps, gap i running from the i-th to the (i+1)-th
\* event in ascending timestamp order, whose durations sum to the largest
\* timestamp minus the smallest; the list passed in keeps its order.
C8_GapsOfSortedCopy ==
    (calcIn.fn = "calculateGaps" /\ IsSome(calcOut)) =>
        LET given == calcIn.given
            gaps == Get(calcOut)
            n == Len(given)
            chain == ChainOf(gaps)
            ts == TimestampsOf(given)
        IN  /\ calcIn.entries = given
            /\ n < 2 => gaps = <<>>
            /\ n >= 2 =>
                 /\ Len(gaps) = n - 1
                 /\ \A i \in 1..(n - 1) :
                       /\ gaps[i].startTime <= gaps[i].endTime
                       /\ gaps[i].durationMs = gaps[i].endTime - gaps[i].startTime
                       /\ i < n - 1 => gaps[i].endTime = gaps[i + 1].startTime
                 /\ \A t \in ts \cup {chain[i] : i \in 1..n} :
                       Cardinality({i \in 1..n : chain[i] = t})
                         = Cardinality({i \in 1..n : given[i].timestamp = t})
                 /\ \A hi \in ts, lo \in ts :
                       ((\A t \in ts : lo <= t /\ t <= hi)
                          => SumOfDurations(gaps) = hi - lo)

\* three events given out of order have yielded two gaps
C8_Witness ==
    /\ calcIn.fn = "calculateGaps"
    /\ IsSome(calcOut)
    /\ Len(calcIn.given) = 3
    /\ calcIn.given[1].timestamp > calcIn.given[2].timestamp
    /\ calcIn.given[2].timestamp < calcIn.given[3].timestamp
    /\ Len(Get(calcOut)) = 2
    /\ Get(calcOut)[1].durationMs > 0

---------------------------------------------------------------------------
(* Properties of the day queries (SpecDay)                                 *)

\* the entries a returned getMealEntriesByDate or getDailySummary carries
ReturnedEntries ==
    IF ret.call.kind = "byDate" THEN Get(ret.value) ELSE Get(ret.value).entries

DayQueryReturned == ret.status = "ok" /\ ret.call.kind \in {"byDate", "summary"}

\* C1: for every UTC offset, a stored event with timestamp t is among the
\* entries of getMealEntriesByDate(d) and of getDailySummary(d) for exactly
\* the date d that is the local calendar date of t.
C1_EventOnItsLocalDate ==
    DayQueryReturned =>
        \A r \in tables["meal_entries"].rows :
            (\E i \in DOMAIN ReturnedEntries : ReturnedEntries[i].id = r.id)
              <=> getDateStringFromTimestamp(r.timestamp) = ret.call.date

\* the stored events of the local date d whose category breaks a fast
QualifyingEvents(d) ==
    {r \in tables["meal_entries"].rows :
        /\ getDateStringFromTimestamp(r.timestamp) = d
        /\ doesCategoryBreakFasting(r.category)}

\* C10: the fastingWindow of getDailySummary(d) starts at the last
\* fast-breaking event of the previous local day and ends at the first
\* fast-breaking event of day d; it is absent when the previous day has no
\* fast-breaking event.
C10_WindowBoundedByQualifyingEvents ==
    (ret.status = "ok" /\ ret.call.kind = "summary") =>
        LET window == Get(ret.value).fastingWindow
            before == QualifyingEvents(ret.call.date - 1)
            onDay == QualifyingEvents(ret.call.date)
        IN  /\ before = {} => ~IsSome(window)
            /\ IsSome(window) =>
                 /\ \E r \in before :
                       /\ r.timestamp = Get(window).startTime
                       /\ \A q \in before : q.timestamp <= r.timestamp
                 /\ \E r \in onDay :
                       /\ r.timestamp = Get(window).endTime
                       /\ \A q \in onDay : r.timestamp <= q.timestamp

\* p's step is a store query of p's getDailySummary failing, on an
\* initialized service
SummaryQueryFails(p) ==
    /\ isInitialized
    /\ pc[p] \in {"summary", "summaryYesterday"}
    /\ pc'[p] = "idle"
    /\ faults' = faults + 1

\* C11: getDailySummary(d) does not swallow store failures: when the query
\* for day d or the query for the previous day fails, the call fails with a
\* storage error and returns no summary; when the previous-day query
\* succeeds with no events, the call succeeds with fastingWindow absent.
C11_SummaryPropagatesQueryFailure ==
    [][\A p \in Callers :
          /\ SummaryQueryFails(p)
                => /\ ret'.caller = p
                   /\ ret'.status = "QUERY_FAILED"
                   /\ ret'.value = None
          /\ (/\ pc[p] = "summaryYesterday"
              /\ faults' = faults
              /\ pc'[p] = "idle"
              /\ getMealEntriesByDate(tables,
                     getDateStringWithOffset(cur[p].date, -1)) = <<>>)
                => /\ ret'.status = "ok"
                   /\ ~IsSome(Get(ret'.value).fastingWindow)]_vars

---------------------------------------------------------------------------
(* Properties of updateMealEntry and deleteMealEntry (Spec)                *)

\* p's step is p's updateMealEntry or deleteMealEntry returning or throwing,
\* with no failure of the statement itself
WriteReturns(p) ==
    /\ ret'.caller = p
    /\ ret'.call.kind \in {"update", "delete"}
    /\ faults' = faults

StoredIds == {r.id : r \in tables["meal_entries"].rows}

\* C12: for every id that is not in the store, updateMealEntry(id, patch),
\* for every patch including the empty one, and deleteMealEntry(id) fail
\* with the error ENTRY_NOT_FOUND, distinct from UPDATE_FAILED and
\* DELETE_FAILED, and leave the store unchanged.
C12_AbsentIdIsNotFound ==
    [][\A p \in Callers :
          (/\ WriteReturns(p)
           /\ isInitialized
           /\ tables["meal_entries"].exists
           /\ ret'.call.id \notin StoredIds)
             => /\ ret'.status = "ENTRY_NOT_FOUND"
                /\ tables' = tables]_vars

\* the stored row of an id
RowOf(T, id) == CHOOSE r \in T["meal_entries"].rows : r.id = id

\* C13: every updateMealEntry(id, patch) on an existing id that completes
\* without error, for every patch, sets the row's updated_at to the time of
\* the call and exactly the patched fields to the patch values, and leaves
\* the row's id and created_at, the fields absent from the patch and every
\* other row unchanged.
C13_UpdateTouchesExactlyThePatch ==
    [][\A p \in Callers :
          (/\ ret'.caller = p
           /\ ret'.call.kind = "update"
           /\ ret'.status = "ok"
           /\ ret'.call.id \in StoredIds)
             => LET op == ret'.call
                    before == RowOf(tables, op.id)
                IN  /\ \E r \in tables'["meal_entries"].rows : r.id = op.id
                    /\ LET after == RowOf(tables', op.id)
                       IN  /\ after.updated_at = op.now
                           /\ after.created_at = before.created_at
                           /\ \A c \in {"category", "timestamp", "notes"} :
                                 after[c] = IF c \in op.fields THEN op[c] ELSE before[c]
                    /\ \A r \in tables["meal_entries"].rows :
                          r.id # op.id => r \in tables'["meal_entries"].rows
                    /\ Cardinality(tables'["meal_entries"].rows)
                         = Cardinality(tables["meal_entries"].rows)]_vars

---------------------------------------------------------------------------
(* Properties of the MealData context (SpecContext)                        *)

\* C14: derived data is never kept across a mutation: once every
\* addMealEntry, updateMealEntry and deleteMealEntry call made through the
\* context has completed, todayEntries are the store's events of today and
\* todaySummary is getDailySummary(today) of the current store.
C14_ContextShowsCurrentStore ==
    /\ ctx.todayEntries = getMealEntriesByDate(tables, getTodayDateString)
    /\ ctx.todaySummary = Some(getDailySummary(tables, getTodayDateString))

---------------------------------------------------------------------------
(* Properties of the values getDailySummary returns (SpecDay)              *)

SummaryReturned == ret.status = "ok" /\ ret.call.kind = "summary"

C16_WindowInValidRange ==
    /\ (SummaryReturned /\ IsSome(Get(ret.value).fastingWindow)) =>
          LET window == Get(Get(ret.value).fastingWindow)
          IN  /\ 0 < window.durationMs
              /\ window.durationMs <= 48 * 60 * 60 * 1000
              /\ window.durationMs = window.endTime - window.startTime
              /\ window.isIntermittentFasting
                    <=> window.durationMs >= 16 * 60 * 60 * 1000
    /\ (calcIn.fn = "calculateFastingWindow" /\ IsSome(calcOut)
        /\ IsSome(Get(calcOut))) =>
          LET window == Get(Get(calcOut))
          IN  /\ 0 < window.durationMs
              /\ window.durationMs <= 48 * 60 * 60 * 1000
              /\ window.durationMs = window.endTime - window.startTime
              /\ window.isIntermittentFasting
                    <=> window.durationMs >= 16 * 60 * 60 * 1000

---------------------------------------------------------------------------
(* The live fasting status (SpecCalc)                                      *)

\* the percentage nearest to 100 * duration / goalMs, a half taken upwards,
\* and never above 100
NearestPercent(duration, goalMs) ==
    IF duration >= goalMs THEN 100
    ELSE (duration + goalMs \div 200) \div (goalMs \div 100)

\* C17: getCurrentFastingStatus(lastEvent, goalHours) at time now: without a
\* last event the status is not fasting, with duration 0, time to goal 0, goal
\* not reached and 0 percent, whatever the goal; with one, currentFastDuration
\* is now - lastEvent.timestamp, goalReached says whether that is at least
\* goalHours * 3600000, timeToGoal is what is left of the goal and never below
\* 0, and progressPercentage is 100 * duration / goal rounded to the nearest
\* whole number and capped at 100; an event 18 hours old with goal 16 is
\* fasting with the goal reached.
C17_CurrentFastingStatus ==
    (calcIn.fn = "getCurrentFastingStatus" /\ IsSome(calcOut)) =>
        LET status == Get(calcOut)
            goalMs == calcIn.goalHours * 3600000
        IN  IF ~IsSome(calcIn.last)
            THEN /\ ~status.isCurrentlyFasting
                 /\ status.currentFastDuration = 0
                 /\ status.timeToGoal = 0
                 /\ ~status.goalReached
                 /\ status.progressPercentage = 0
            ELSE LET d == calcIn.now - Get(calcIn.last).timestamp
                 IN  /\ status.currentFastDuration = d
                     /\ status.goalReached = (d >= goalMs)
                     /\ status.timeToGoal = (IF goalMs - d > 0 THEN goalMs - d ELSE 0)
                     /\ status.progressPercentage = NearestPercent(d, goalMs)
                     /\ (d = 18 * HourMs /\ calcIn.goalHours = 16) =>
                            status.isCurrentlyFasting /\ status.goalReached

---------------------------------------------------------------------------
(* The live fasting status on the stats screen (SpecContext)               *)

\* the events of the log whose category breaks a fast
FastBreakingEvents ==
    {r \in tables.meal_entries.rows : doesCategoryBreakFasting(r.category)}

\* C18: the live fasting status is computed from the most recent event of the
\* log whose category breaks a fast, whichever local day it was logged on:
\* water events never change which event that is, and the status is "not
\* fasting" only when the log holds no fast-breaking event.
C18_StatusFromLastFastBreakingEvent ==
    /\ (FastBreakingEvents = {}) <=> ~IsSome(lastFastingBreakingMeal)
    /\ IsSome(lastFastingBreakingMeal) =>
          \E r \in FastBreakingEvents :
              /\ r.id = Get(lastFastingBreakingMeal).id
              /\ r.timestamp = Get(lastFastingBreakingMeal).timestamp
              /\ \A q \in FastBreakingEvents : q.timestamp <= r.timestamp
    /\ ~fastingStatus.isCurrentlyFasting => FastBreakingEvents = {}

---------------------------------------------------------------------------
(* The fasting goal of the settings store (SpecSettings)                   *)

\* the public operations that write settings
SettingsWrites == {"setFastingGoal", "updateAppSettings", "resetAppSettings",
                   "importData", "setSettings"}

\* C19: after any sequence of writes through setFastingGoal, updateAppSettings,
\* resetAppSettings, importData and setSettings, getFastingGoal() returns a
\* whole number from 8 to 24; a write that would store a fasting goal outside
\* 8..24 is rejected and leaves the stored settings unchanged.
C19_FastingGoalStaysInRange ==
    [][/\ getFastingGoal(asyncStorage') \in 8..24
       /\ storageRet'.call = "getFastingGoal" => storageRet'.hours \in 8..24
       /\ (/\ storageRet'.call \in SettingsWrites
           /\ IsSome(storageRet'.asked)
           /\ Get(storageRet'.asked) \notin 8..24)
          => /\ storageRet'.status # "ok"
             /\ asyncStorage' = asyncStorage]_vars

---------------------------------------------------------------------------
(* The duration formatter (SpecCalc)                                       *)

\* the whole minutes in ms milliseconds, the rest dropped
WholeMinutes(ms) == CHOOSE n \in 0..(ms \div 60000 + 1) :
                        n * 60000 <= ms /\ ms < (n + 1) * 60000

\* C20: formatDuration(ms) is "0m" for a negative ms; otherwise, with the
\* whole minutes of ms (truncated, not rounded) split into h hours and m
\* remaining minutes, it is "{m}m" when h is 0, "{h}h" when m is 0 and
\* "{h}h {m}m" otherwise: 125 minutes give "2h 5m", 45 minutes "45m", 120
\* minutes "2h", 60 minutes "1h" and 0 gives "0m".
C20_FormatDuration ==
    (calcIn.fn = "formatDuration" /\ IsSome(calcOut)) =>
        LET ms == calcIn.ms
            text == Get(calcOut)
        IN  /\ ms < 0 => text = "0m"
            /\ ms >= 0 =>
                 LET h == WholeMinutes(ms) \div 60
                     m == WholeMinutes(ms) % 60
                 IN  /\ h = 0 => text = ToString(m) \o "m"
                     /\ (h > 0 /\ m = 0) => text = ToString(h) \o "h"
                     /\ (h > 0 /\ m > 0) =>
                            text = ToString(h) \o "h " \o ToString(m) \o "m"
            /\ ms = 125 * 60000 => text = "2h 5m"
            /\ ms = 45 * 60000 => text = "45m"
            /\ ms = 120 * 60000 => text = "2h"
            /\ ms = 60 * 60000 => text = "1h"
            /\ ms = 0 => text = "0m"

\* formatDuration returned "2h 5m" for 125 minutes and 59.999 seconds
C20_Witness ==
    /\ calcIn.fn = "formatDuration"
    /\ calcIn.ms = 125 * 60000 + 59999
    /\ calcOut = Some("2h 5m")

\* C21: for every x >= 0, parseDuration(formatDuration(x)) is never greater
\* than x and differs from it by less than 60000 ms: it is x truncated to
\* whole minutes.
C21_ParseOfFormat ==
    (calcIn.fn = "parseDuration" /\ IsSome(calcOut) /\ calcIn.ms >= 0) =>
        LET x == calcIn.ms
            parsed == Get(calcOut)
        IN  /\ parsed <= x
            /\ x - parsed < 60000
            /\ parsed = WholeMinutes(x) * 60000

\* "10h 9m", the text of 609 minutes and 30 seconds, was parsed to 609 minutes
C21_Witness ==
    /\ calcIn.fn = "parseDuration"
    /\ calcIn.ms = 609 * 60000 + 30000
    /\ calcIn.durationString = "10h 9m"
    /\ calcOut = Some(609 * 60000)

---------------------------------------------------------------------------
(* Daily statistics (SpecCalc)                                             *)

\* the first position of gaps whose durationMs no other position undercuts
\* (least TRUE) or exceeds (least FALSE)
FirstExtreme(gaps, least) ==
    CHOOSE i \in DOMAIN gaps :
        /\ \A j \in DOMAIN gaps :
              IF least THEN gaps[i].durationMs <= gaps[j].durationMs
              ELSE gaps[i].durationMs >= gaps[j].durationMs
        /\ \A j \in 1..(i - 1) : gaps[j].durationMs # gaps[i].durationMs

\* C22: getDailyStats(summary): with no gaps, shortestGap and longestGap are
\* null and averageGap is 0; otherwise shortestGap and longestGap are the gaps
\* of least and greatest durationMs, the first of them in summary.gaps when
\* several tie, and averageGap is the arithmetic mean of durationMs;
\* totalGaps is gaps.length and totalIntakeToday is entries.length.
C22_DailyStats ==
    (calcIn.fn = "getDailyStats" /\ IsSome(calcOut)) =>
        LET gaps == calcIn.summary.gaps
            stats == Get(calcOut)
        IN  /\ stats.totalGaps = Len(gaps)
            /\ stats.totalIntakeToday = Len(calcIn.summary.entries)
            /\ IF gaps = <<>>
               THEN /\ stats.shortestGap = None
                    /\ stats.longestGap = None
                    /\ stats.averageGap.over = 0
               ELSE /\ stats.shortestGap = Some(gaps[FirstExtreme(gaps, TRUE)])
                    /\ stats.longestGap = Some(gaps[FirstExtreme(gaps, FALSE)])
                    /\ stats.averageGap.over * Len(gaps)
                         = stats.averageGap.by * SumOfDurations(gaps)

\* three gaps of 1h, 1h30 and 1h at different times: the shortest reported is
\* the first of the two 1h gaps
C22_Witness ==
    /\ calcIn.fn = "getDailyStats"
    /\ IsSome(calcOut)
    /\ Len(calcIn.summary.gaps) = 3
    /\ calcIn.summary.gaps[1].durationMs = HourMs
    /\ calcIn.summary.gaps[3].durationMs = HourMs
    /\ calcIn.summary.gaps[1].startTime # calcIn.summary.gaps[3].startTime
    /\ calcIn.summary.gaps[2].durationMs = 90 * MsPerMinute
    /\ Get(calcOut).shortestGap = Some(calcIn.summary.gaps[1])
    /\ Get(calcOut).longestGap = Some(calcIn.summary.gaps[2])
    /\ Get(calcOut).averageGap = [over |-> 210 * MsPerMinute, by |-> 3]

---------------------------------------------------------------------------
(* Eating patterns (SpecCalc)                                              *)

\* the sum over the days of at least two entries of the time from their first
\* entry to their last
RECURSIVE SumOfEatingWindows(_)
SumOfEatingWindows(summaries) ==
    IF summaries = <<>> THEN 0
    ELSE LET es == Head(summaries).entries
         IN  (IF Len(es) >= 2 THEN es[Len(es)].timestamp - es[1].timestamp ELSE 0)
             + SumOfEatingWindows(Tail(summaries))

\* C23: analyzeEatingPatterns(summaries): intermittentFastingDays counts the
\* summaries that have a fastingWindow with isIntermittentFasting true, so it
\* lies between 0 and the number of summaries with a fastingWindow, which is
\* at most the number of summaries; averageEatingWindow is the mean of last
\* minus first timestamp over the days with at least 2 entries, and 0 when no
\* day has 2; for the empty list every average and count reported is 0.
C23_EatingPatterns ==
    (calcIn.fn = "analyzeEatingPatterns" /\ IsSome(calcOut)) =>
        LET summaries == calcIn.summaries
            analysis == Get(calcOut)
            withWindow == {i \in DOMAIN summaries : IsSome(summaries[i].fastingWindow)}
            fasting == {i \in withWindow :
                            Get(summaries[i].fastingWindow).isIntermittentFasting}
            eating == {i \in DOMAIN summaries : Len(summaries[i].entries) >= 2}
        IN  /\ analysis.intermittentFastingDays = Cardinality(fasting)
            /\ 0 <= analysis.intermittentFastingDays
            /\ analysis.intermittentFastingDays <= Cardinality(withWindow)
            /\ Cardinality(withWindow) <= Len(summaries)
            /\ IF eating = {}
               THEN analysis.averageEatingWindow.over = 0
               ELSE analysis.averageEatingWindow.over * Cardinality(eating)
                        = analysis.averageEatingWindow.by * SumOfEatingWindows(summaries)
            /\ summaries = <<>> =>
                  /\ analysis.averageEatingWindow.over = 0
                  /\ analysis.averageMealsPerDay.over = 0
                  /\ analysis.averageFastingHours.over = 0
                  /\ analysis.intermittentFastingDays = 0
                  /\ analysis.consistencyScore = 0

\* three days analysed: one of three entries over 10 hours with a 16-hour
\* fast, one of two entries with a 12-hour fast, one of a single entry
C23_Witness ==
    /\ calcIn.fn = "analyzeEatingPatterns"
    /\ IsSome(calcOut)
    /\ Len(calcIn.summaries) = 3
    /\ Len(calcIn.summaries[1].entries) = 3
    /\ IsSome(calcIn.summaries[1].fastingWindow)
    /\ Get(calcIn.summaries[1].fastingWindow).isIntermittentFasting
    /\ Len(calcIn.summaries[2].entries) = 2
    /\ IsSome(calcIn.summaries[2].fastingWindow)
    /\ ~Get(calcIn.summaries[2].fastingWindow).isIntermittentFasting
    /\ Len(calcIn.summaries[3].entries) = 1
    /\ Get(calcOut).intermittentFastingDays = 1
    /\ Get(calcOut).averageEatingWindow = [over |-> 13 * HourMs, by |-> 2]

---------------------------------------------------------------------------
(* Date identifiers (SpecDates)                                            *)

\* C24: getDateStringWithOffset(d, k) is the identifier of the calendar date
\* exactly k days from d, for every d, every k and every UTC offset of the
\* device; so an offset of 0 returns d, and going k days on and then k days
\* back returns d.
C24_OffsetIsCalendarArithmetic ==
    /\ (calcIn.fn = "getDateStringWithOffset" /\ IsSome(calcOut)) =>
          Get(calcOut) = calcIn.baseDate + calcIn.offsetDays
    /\ (calcIn.fn = "goBack" /\ IsSome(calcOut)) => Get(calcOut) = calcIn.baseDate

---------------------------------------------------------------------------
(* Gaps between events logged at the same instant (SpecCalc, SpecDay)      *)

\* a gap that ends after it starts and lasts as long as that
ProperGap(gap) ==
    /\ gap.endTime > gap.startTime
    /\ gap.durationMs = gap.endTime - gap.startTime
    /\ gap.durationMs > 0

\* C25: every TimeGap produced by calculateGaps and by getDailySummary, for
\* every list of events (two events may carry the same timestamp), ends after
\* it starts, with durationMs = endTime - startTime > 0.
C25_GapsArePositive ==
    /\ (calcIn.fn = "calculateGaps" /\ IsSome(calcOut)) =>
          \A i \in DOMAIN Get(calcOut) : ProperGap(Get(calcOut)[i])
    /\ SummaryReturned =>
          \A i \in DOMAIN Get(ret.value).gaps : ProperGap(Get(ret.value).gaps[i])

---------------------------------------------------------------------------
(* Rows across interrupted migrations (SpecMigration)                      *)

\* C26: no stored event is lost across interrupted migrations: for every
\* old-schema store and every sequence of initialize() attempts in which the
\* migration is interrupted after some step and initialize() later runs to
\* success, every row that was in meal_entries before the first attempt is in
\* meal_entries after the successful one, with the same id, category,
\* timestamp, notes, created_at and updated_at.
C26_NoRowLostAcrossInterruptedMigrations ==
    (/\ ret.status = "ok"
     /\ ret.call.kind = "initialize"
     /\ HasDateColumn(installed.tables))
    => /\ tables["meal_entries"].exists
       /\ \A r \in installed.tables["meal_entries"].rows :
             CopiedRow(r) \in tables["meal_entries"].rows

---------------------------------------------------------------------------
(* The range of the live fasting status (SpecCalc)                         *)

\* C27: for every last event, every goal from 8 to 24 hours and every current
\* time, a last event later than the current time included,
\* getCurrentFastingStatus returns progressPercentage within 0..100 and
\* timeToGoal within 0..goalHours * 3600000.
C27_StatusWithinRange ==
    (calcIn.fn = "getCurrentFastingStatus" /\ IsSome(calcOut)
     /\ calcIn.goalHours \in 8..24) =>
        /\ Get(calcOut).progressPercentage \in 0..100
        /\ Get(calcOut).timeToGoal \in 0..(calcIn.goalHours * 3600000)

---------------------------------------------------------------------------
(* The MealData context under overlapping calls (SpecOverlap)              *)

\* C28: in every reachable state of the MealData context, after any sequence
\* of ADD_ENTRY, UPDATE_ENTRY (a changed timestamp included), DELETE_ENTRY and
\* SET_TODAY_ENTRIES actions produced by its operations, todayEntries ascend
\* by timestamp and hold no id twice, so that the first and last of them are
\* today's earliest and latest events.
C28_TodayEntriesSortedAndDistinct ==
    \A i, j \in DOMAIN ctx.todayEntries :
        i < j => /\ ctx.todayEntries[i].timestamp <= ctx.todayEntries[j].timestamp
                 /\ ctx.todayEntries[i].id # ctx.todayEntries[j].id

\* a loadTodayData run is in flight
LoadInFlight == \E p \in Callers : pc[p] \in {"ctxEntries", "ctxSummary"}

\* C29: isLoading is true whenever at least one loadTodayData run is in
\* flight, also when two runs overlap, and it becomes false once every run
\* has finished, whether it succeeded or failed.
C29_LoadingWhileInFlight ==
    /\ LoadInFlight => ctx.isLoading
    /\ (\A p \in Callers : pc[p] = "idle") => ~ctx.isLoading


---------------------------------------------------------------------------
\* C30: partial settings updates are not lost under interleaving.  When a
\* call of updateAppSettings completes its write, the stored settings are the
\* settings stored just before with the call's updates spread over them,
\* whatever other calls overlapped it: so after two overlapping calls that
\* set different fields (setTheme and setFastingGoal) have completed, the
\* stored settings hold both updates, and no other field has changed.
C30_WriteKeepsOtherFields ==
    \A p \in Callers :
        (pc[p] = "setSettings" /\ pc'[p] = "idle")
            => getAppSettings(asyncStorage') =
                   Spread(getAppSettings(asyncStorage), cur[p].updates)

C30_PartialUpdatesNotLost == [][C30_WriteKeepsOtherFields]_vars

====
